---- MODULE Spec2Model ----
(***************************************************************************)
(* A model of the Netlify function netlify/functions/ask.js: the handler   *)
(* of one invocation (validation, moderation, one or two generation calls  *)
(* with 429 backoff, output repair) and the pure helpers it calls.         *)
(*                                                                         *)
(* JavaScript values are records tagged by t ("undefined", "null",         *)
(* "boolean", "number", "string", "array", "object").  A string is a       *)
(* sequence of tokens: a token is a run of characters that the code's      *)
(* regular expressions and string operations never split ("?", " ", a      *)
(* word, a phrase, a severity scale "0-10", ...).  A JSON text is modelled *)
(* by the value it parses to, or as garbage that JSON.parse rejects.       *)
(***************************************************************************)
EXTENDS Integers, Sequences, FiniteSets, TLC

VARIABLES
  pc,          \* where the invocation is: idle, moderating, fetching, sleeping, done
  event,       \* the event the handler was invoked with
  apiKey,      \* process.env.OPENAI_API_KEY
  ctx,         \* history, assistantTurns, topicHint, urgentFlag
  forceAdvice, \* the argument of the running callOnce
  i, wait, last, \* the locals of the running callOpenAIWithBackoff
  callResult,  \* the handler's { ok, parsed, raw, status }
  outcome,     \* what the invocation ended with: a response, or an uncaught exception
  modLog,      \* the inputs of the moderation requests sent
  modSeen,     \* how the moderation request settled
  calls,       \* per callOnce: its argument, the requests sent, the statuses received,
               \* the number of the response callOpenAIWithBackoff returned
  sentTotal,   \* the completion requests sent
  slept,       \* the backoff delays slept
  inflight,    \* the outbound requests not yet settled
  norm,        \* normalizeHistory on its own: the input, the output, the output's output
  side,        \* the handlers side by side: which file, its event, where it is, its outcome
  probe        \* the classifiers and the diagnostic endpoint on their own: inputs and results

vars == <<pc, event, apiKey, ctx, forceAdvice, i, wait, last, callResult,
          outcome, modLog, modSeen, calls, sentTotal, slept, inflight, norm, side, probe>>

\* what an invocation of exports.handler in netlify/functions/ask.js works on
invocation == <<pc, event, apiKey, ctx, forceAdvice, i, wait, last, callResult,
                outcome, modLog, modSeen, calls, sentTotal, slept, inflight>>

-----------------------------------------------------------------------------
(* Program constants                                                       *)
MAX_INTAKE_TURNS == 2
Tries == 3
InitialWait == 1000
ContentCap == 800
HistoryCap == 12
MinQuestionLen == 2
MinAdviceLen == 40

(* Bounds of the model                                                     *)
MaxHist == 2
MaxRaw == 14

FRIENDLY_OPENER == <<"Just a reminder: I'm not a substitute for a clinician ...">>
FINAL_REMINDER_DEFAULT ==
  <<"If symptoms persist, worsen, or you're unsure, arranging a timely clinic visit with a qualified clinician is sensible.">>
URGENT_REPLY ==
  <<"This sounds potentially urgent. If you have severe pain, trouble breathing, fainting, or stroke-like symptoms, please seek urgent care now.">>
URGENT_ADVICE ==
  FRIENDLY_OPENER \o <<"\n", "\n",
    "Watch-outs (urgent): chest pain, trouble breathing, one-sided weakness, heavy bleeding, signs of a severe allergic reaction. If these are present, using urgent care or emergency services is sensible.">>

-----------------------------------------------------------------------------
(* JavaScript values                                                       *)
JUndef == [t |-> "undefined"]
JNull == [t |-> "null"]
JBool(b) == [t |-> "boolean", b |-> b]
JNum(n) == [t |-> "number", n |-> n]
JStr(s) == [t |-> "string", s |-> s]
JArr(a) == [t |-> "array", a |-> a]
JObj(f) == [t |-> "object", f |-> f]
Thrown == [t |-> "throw"]

\* ToBoolean
Truthy(v) ==
  CASE v.t = "undefined" -> FALSE
    [] v.t = "null" -> FALSE
    [] v.t = "boolean" -> v.b
    [] v.t = "number" -> v.n # 0
    [] v.t = "string" -> v.s # <<>>
    [] OTHER -> TRUE

\* o.k for a value that is neither null nor undefined (own data properties only)
Get(o, k) == IF o.t = "object" /\ k \in DOMAIN o.f THEN o.f[k] ELSE JUndef

\* o.k = v in sloppy mode: silently ignored on a primitive; on an array the
\* property is set but JSON.stringify does not emit it
Put(o, k, v) ==
  IF o.t = "object"
    THEN JObj([x \in DOMAIN o.f \cup {k} |-> IF x = k THEN v ELSE o.f[x]])
    ELSE o

\* a || b
OrElse(a, b) == IF Truthy(a) THEN a ELSE b

-----------------------------------------------------------------------------
(* Strings as token sequences                                              *)
ScaleToks == {"0-10", "0 to 10"}
WhiteToks == {" ", "\n"}
LongTok == "<800 characters>"
SentenceToks == {FRIENDLY_OPENER[1], FINAL_REMINDER_DEFAULT[1], URGENT_REPLY[1],
                 URGENT_ADVICE[4],
                 "Quick take - based on what you shared, here's a general picture.",
                 "Don't-miss to rule out - a few serious possibilities clinicians consider.",
                 "What clinicians often do first - focused history/exam and common labs or scans.",
                 "A long enough explanation of common causes and what clinicians check."}

TokLen(tok) ==
  CASE tok \in WhiteToks \cup {"?", "a"} -> 1
    [] tok = LongTok -> ContentCap
    [] tok \in SentenceToks -> 64
    [] OTHER -> 8

RECURSIVE StrLen(_)
StrLen(s) == IF s = <<>> THEN 0 ELSE TokLen(Head(s)) + StrLen(Tail(s))

RECURSIVE TrimLeft(_)
TrimLeft(s) == IF s # <<>> /\ Head(s) \in WhiteToks THEN TrimLeft(Tail(s)) ELSE s

RECURSIVE TrimRight(_)
TrimRight(s) ==
  IF s # <<>> /\ s[Len(s)] \in WhiteToks THEN TrimRight(SubSeq(s, 1, Len(s) - 1)) ELSE s

\* String.prototype.trim
Trim(s) == TrimRight(TrimLeft(s))

\* s.indexOf(tok), 1-based, 0 when absent
IndexOf(s, tok) ==
  IF \E k \in 1..Len(s) : s[k] = tok
    THEN CHOOSE k \in 1..Len(s) : s[k] = tok /\ \A j \in 1..(k - 1) : s[j] # tok
    ELSE 0

EndsWith(s, tok) == s # <<>> /\ s[Len(s)] = tok

\* s.slice(0, n): the longest prefix of whole tokens within n characters
RECURSIVE SlicePrefix(_, _)
SlicePrefix(s, n) ==
  IF s = <<>> \/ TokLen(Head(s)) > n THEN <<>>
  ELSE <<Head(s)>> \o SlicePrefix(Tail(s), n - TokLen(Head(s)))

\* a variant that keeps the first n
SliceLastKeepsFirst(a, n) == IF Len(a) <= n THEN a ELSE SubSeq(a, 1, n)
\* a variant that drops the oldest element
SliceLastDropsOldest(a, n) == IF a = <<>> THEN a ELSE Tail(a)

\* a.slice(-n)
SliceLast(a, n) == IF Len(a) <= n THEN a ELSE SubSeq(a, Len(a) - n + 1, Len(a))

\* a.slice(0, n)
SliceFirst(a, n) == IF Len(a) <= n THEN a ELSE SubSeq(a, 1, n)

\* a.filter(p) for a predicate given as the set of elements it keeps
RECURSIVE FilterSeq(_, _)
FilterSeq(a, keep) ==
  IF a = <<>> THEN <<>>
  ELSE (IF Head(a) \in keep THEN <<Head(a)>> ELSE <<>>) \o FilterSeq(Tail(a), keep)

\* strs.join(sep) for a sequence of token sequences
RECURSIVE Join(_, _)
Join(strs, sep) ==
  IF strs = <<>> THEN <<>>
  ELSE IF Len(strs) = 1 THEN Head(strs)
  ELSE Head(strs) \o sep \o Join(Tail(strs), sep)

\* toLowerCase on the tokens that carry upper-case letters
ToLowerTok(tok) ==
  CASE tok = "Migraine" -> "migraine"
    [] tok = "STROKE" -> "stroke"
    [] OTHER -> tok

ToLower(s) == [k \in 1..Len(s) |-> ToLowerTok(s[k])]

\* String(v)
ToStr(v) ==
  CASE v.t = "string" -> v.s
    [] v.t = "number" -> <<"5">>
    [] OTHER -> <<"[object Object]">>

Range(a) == {a[k] : k \in 1..Len(a)}

-----------------------------------------------------------------------------
(* normalizeHistory: keep recent turns, trim long messages                 *)
Roles == {JStr(<<"user">>), JStr(<<"assistant">>)}

\* o.k for any value: a TypeError on null and undefined
Member(o, k) == IF o.t \in {"null", "undefined"} THEN Thrown ELSE Get(o, k)
\* a variant of the filter without its leading t &&
GuardedNever(t) == TRUE

\* t && ... in the filter callback
Guarded(t) == Truthy(t)

WellFormedTurn(t) ==
  Guarded(t) /\ Get(t, "role") \in Roles /\ Get(t, "content").t = "string"

\* a TypeError where a sequence is returned otherwise
Raised == <<Thrown>>

\* the filter callback throws on t
FilterThrows(t) == Guarded(t) /\ Member(t, "role") = Thrown

normalizeHistory(raw) ==
  IF raw.t # "array" THEN <<>>
  ELSE IF \E x \in Range(raw.a) : FilterThrows(x) THEN Raised
  ELSE LET kept == FilterSeq(raw.a, {x \in Range(raw.a) : WellFormedTurn(x)})
           clean == [k \in 1..Len(kept) |->
                       [role |-> Get(kept[k], "role").s[1],
                        content |-> SlicePrefix(Get(kept[k], "content").s, ContentCap)]]
       IN SliceLast(clean, HistoryCap)

\* a normalized history as the JavaScript array it is
AsArray(h) ==
  JArr([k \in 1..Len(h) |->
          JObj([role |-> JStr(<<h[k].role>>), content |-> JStr(h[k].content)])])

\* the handlers side by side: not begun
NoSide == [pc |-> "idle"]
NoProbe == [of |-> "none"]

\* normalizeHistory applied to raw, and applied again to what it returned
Normalized(raw) ==
  LET once == normalizeHistory(raw)
  IN [raw |-> raw,
      out |-> once,
      again |-> IF once = Raised THEN Raised ELSE normalizeHistory(AsArray(once))]

-----------------------------------------------------------------------------
(* inferTopic: the tokens each rule's regular expression matches           *)
LabTestToks == {"uric acid", "gout", "saturated"}
MedToks == {"vitamin", "tablet", "dose"}
RashToks == {"rash", "itch", "hives all over"}
HeadacheToks == {"headache", "migraine"}
AbdominalToks == {"tummy", "stomach"}
GrowthToks == {"tall", "short", "growth"}
CardiorespToks == {"chest pain", "severe chest pain", "shortness of breath", "asthma"}
PregnancyToks == {"pregnant", "pregnancy", "breastfeeding"}
HairLossToks == {"hair loss", "shedding"}
FatigueToks == {"fatigue", "tired"}

Has(txt, toks) == \E k \in 1..Len(txt) : txt[k] \in toks

Topics == {"lab_test", "vitamin_or_med", "symptom_rash", "symptom_headache",
           "symptom_abdominal", "growth_development", "symptom_cardioresp",
           "pregnancy_related", "fatigue_hair", "other"}

inferTopic(userText, history) ==
  LET contents == [k \in 1..Len(history) |-> history[k].content]
      txt == ToLower(Join(contents, <<" ">>) \o <<" ">> \o OrElse(userText, JStr(<<>>)).s)
  IN CASE Has(txt, LabTestToks) -> "lab_test"
       [] Has(txt, MedToks) -> "vitamin_or_med"
       [] Has(txt, RashToks) -> "symptom_rash"
       [] Has(txt, HeadacheToks) -> "symptom_headache"
       [] Has(txt, AbdominalToks) -> "symptom_abdominal"
       [] Has(txt, GrowthToks) -> "growth_development"
       [] Has(txt, CardiorespToks) -> "symptom_cardioresp"
       [] Has(txt, PregnancyToks) -> "pregnancy_related"
       [] Has(txt, HairLossToks) /\ Has(txt, FatigueToks) -> "fatigue_hair"
       [] OTHER -> "other"

-----------------------------------------------------------------------------
(* detectUrgency: red-flag patterns over the new message                   *)
UrgentToks ==
  {"severe chest pain", "crushing chest", "pain to left arm", "shortness of breath",
   "can't breathe", "stroke", "face droop", "slurred speech", "weakness one side",
   "fainted", "fainting", "passed out", "collapse", "anaphylaxis", "throat closing",
   "lip swelling", "hives all over", "wheezing", "suicidal", "suicide", "self-harm",
   "self harm", "want to die", "major trauma", "car crash", "serious injury"}
PregnanToks == {"pregnant", "pregnancy"}
PregnancyAlarmToks == {"bleeding", "severe pain", "reduced movements"}
HighFeverToks == {"high fever"}
FeverAlarmToks == {"confusion", "rash"}

\* /first.*second/ : first, then second later on the same line
Then(s, first, second) ==
  \E a \in 1..Len(s) : \E b \in (a + 1)..Len(s) :
     /\ s[a] \in first
     /\ s[b] \in second
     /\ \A k \in a..b : s[k] # "\n"

detectUrgency(userText) ==
  LET s == ToLower(ToStr(OrElse(userText, JStr(<<>>))))
  IN \/ Has(s, UrgentToks)
     \/ Then(s, PregnanToks, PregnancyAlarmToks)
     \/ Then(s, HighFeverToks, FeverAlarmToks)

-----------------------------------------------------------------------------
(* fallbackQuestion: the per-topic question bank                           *)
QuestionBank ==
  [vitamin_or_med |->
     << <<"What's the exact product and dose, and why are you taking it", "?">>,
        <<"How long have you been using it, and any side effects so far", "?">> >>,
   lab_test |->
     << <<"Which test are you asking about and what was the number and unit (if you know)", "?">>,
        <<"Why was the test ordered, and have you had red, hot, very painful joints", "?">> >>,
   symptom_headache |->
     << <<"When did the headache start - sudden or gradual", "?">>,
        <<"How severe is it (", "0-10", "), and any nausea or light sensitivity", "?">> >>,
   symptom_abdominal |->
     << <<"When did the tummy pain start - sudden or gradual", "?">>,
        <<"Where is it (upper/lower/central/right/left), and how severe is it (", "0-10", ")", "?">> >>,
   symptom_rash |->
     << <<"When did the rash start, and where on your body is it", "?">>,
        <<"Is it itchy, painful, or spreading, and do you have a fever", "?">> >>,
   symptom_cardioresp |->
     << <<"When did the chest or breathing symptom start - sudden or gradual", "?">>,
        <<"What makes it better or worse (rest, activity, cold air, lying down)", "?">> >>,
   growth_development |->
     << <<"How tall are you now, and roughly how much have you grown in the last 6-12 months", "?">>,
        <<"Have you started puberty changes yet (e.g., growth spurt, periods, voice change)", "?",
          " ", "If you know, what are your parents' heights", "?">> >>,
   pregnancy_related |->
     << <<"How many weeks pregnant are you, and what symptoms are you noticing", "?">>,
        <<"Any bleeding, severe pain, or reduced baby movements", "?">> >>,
   fatigue_hair |->
     << <<"Are your periods heavy or irregular, and have you had recent illness, stress, or big weight change", "?">>,
        <<"Do you follow a vegetarian/vegan diet or take any thyroid/iron-related medicines", "?">> >>,
   other |->
     << <<"When did this start - sudden or gradual", "?">>,
        <<"How severe is it (", "0-10", "), and what makes it better or worse", "?">> >>]

Min(a, b) == IF a <= b THEN a ELSE b

\* topic is a JavaScript value used as a property key of the bank
fallbackQuestion(step, userText, topic) ==
  LET key == IF topic.t = "undefined" THEN <<"other">> ELSE ToStr(topic)
      arr == IF Len(key) = 1 /\ key[1] \in DOMAIN QuestionBank
               THEN QuestionBank[key[1]] ELSE QuestionBank.other
      s == arr[Min(step, Len(arr) - 1) + 1]
  IN IF EndsWith(s, "?") THEN s ELSE s \o <<"?">>

PainScaleTopics ==
  {"symptom_headache", "symptom_abdominal", "symptom_cardioresp", "symptom_rash", "other"}

topicAllowsPainScale(topic) ==
  topic.t = "string" /\ Len(topic.s) = 1 /\ topic.s[1] \in PainScaleTopics

-----------------------------------------------------------------------------
(* sanitizeAdvice: remove dosing and imperatives                           *)
DoseToks == {"5 mg", "10 ml"}
TimedToks == {"15-20 minutes", "20 minutes"}
FrequencyToks == {"3x/day", "two times/day"}
ImperativeToks == {"Take", "Use", "Apply", "Rest", "Avoid"}
BulletToks == {"-", "*"}
ObligationToks == {"you should", "you need to", "you must"}

SkipBullet(s) == IF s # <<>> /\ Head(s) \in BulletToks THEN Tail(s) ELSE s

\* what follows (^|\n): \s*[-*]?\s*
AfterLineStart(s) == TrimLeft(SkipBullet(TrimLeft(s)))

StartsImperative(s) == AfterLineStart(s) # <<>> /\ Head(AfterLineStart(s)) \in ImperativeToks

Softened(verb) == <<"* People sometimes ", verb, "... (discuss with your clinician)">>

RECURSIVE Replaced(_, _)
Replaced(s, lineStart) ==
  IF lineStart /\ StartsImperative(s)
    THEN Softened(Head(AfterLineStart(s))) \o Replaced(Tail(AfterLineStart(s)), FALSE)
  ELSE IF s = <<>> THEN <<>>
  ELSE LET h == Head(s)
       IN CASE h \in DoseToks -> <<"a doctor-directed dose">> \o Replaced(Tail(s), FALSE)
            [] h \in TimedToks -> <<"a short time">> \o Replaced(Tail(s), FALSE)
            [] h \in FrequencyToks ->
                 <<"regularly as advised by a clinician">> \o Replaced(Tail(s), FALSE)
            [] h \in ObligationToks ->
                 <<"it may be worth discussing with your clinician whether you could">>
                   \o Replaced(Tail(s), FALSE)
            [] OTHER -> <<h>> \o Replaced(Tail(s), h = "\n")

\* /\n{3,}/g -> "\n\n"
RECURSIVE Tighten(_, _)
Tighten(s, run) ==
  IF s = <<>> THEN <<>>
  ELSE IF Head(s) = "\n"
    THEN (IF run >= 2 THEN <<>> ELSE <<"\n">>) \o Tighten(Tail(s), run + 1)
    ELSE <<Head(s)>> \o Tighten(Tail(s), 0)

\* text is a JavaScript value; the result is a token sequence
sanitizeAdvice(text) == Trim(Tighten(Replaced(ToStr(text), TRUE), 0))

-----------------------------------------------------------------------------
(* enforceOneQuestion: keep one relevant question, synthesize otherwise    *)
MentionsScale(q) == \E k \in 1..Len(q) : q[k] \in ScaleToks
\* a variant that truncates at the first question mark and never synthesizes
enforceOneQuestionTruncateOnly(o, step, userText, topic) ==
  LET reply == OrElse(Get(o, "chat_reply"), JStr(<<>>))
  IN IF reply.t # "string" THEN Thrown
     ELSE LET q0 == Trim(reply.s)
              qm == IndexOf(q0, "?")
              q1 == IF qm # 0 THEN SubSeq(q0, 1, qm) ELSE q0
          IN Put(Put(o, "chat_reply", JStr(q1)), "ask_back", JStr(<<>>))


enforceOneQuestion(o, step, userText, topic) ==
  LET reply == OrElse(Get(o, "chat_reply"), JStr(<<>>))
  IN IF reply.t # "string" THEN Thrown
     ELSE LET q0 == Trim(reply.s)
              qm == IndexOf(q0, "?")
              q1 == IF qm # 0 THEN SubSeq(q0, 1, qm) ELSE q0
              q2 == IF (q1 = <<>> \/ ~EndsWith(q1, "?"))
                       \/ (MentionsScale(q1) /\ ~topicAllowsPainScale(topic))
                      THEN fallbackQuestion(step, userText, topic)
                      ELSE q1
          IN Put(Put(o, "chat_reply", JStr(q2)), "ask_back", JStr(<<>>))

-----------------------------------------------------------------------------
(* JSON texts, HTTP responses                                              *)
JText(v) == [t |-> "string", s |-> <<"<json text>">>, json |-> v]
Garbage == JStr(<<"<not json>">>)

\* JSON.parse(x): x is coerced to a string first
JSONparse(x) ==
  CASE x.t = "string" -> IF "json" \in DOMAIN x THEN x.json ELSE Thrown
    [] x.t \in {"number", "boolean", "null"} -> x
    [] OTHER -> Thrown

\* JSON.stringify of an object drops the properties whose value is undefined
Emit(v) ==
  IF v.t = "object"
    THEN JObj([k \in {x \in DOMAIN v.f : v.f[x] # JUndef} |-> v.f[k]])
    ELSE v

IsOk(status) == status >= 200 /\ status <= 299

Response(status, body) == [kind |-> "response", statusCode |-> status, body |-> body]
Threw == [kind |-> "threw"]
Pending == [kind |-> "none"]

ErrorBody(msg) == JObj([ok |-> JBool(FALSE), error |-> JStr(<<msg>>)])

-----------------------------------------------------------------------------
(* callOnce: parseOut over the response payload                            *)
TextItemTypes == {JStr(<<"output_text">>), JStr(<<"text">>)}

\* d.output[0]?.content?.find?.(c => c.type === "output_text" || c.type === "text")
FindTextItem(d) ==
  LET first == IF d.a = <<>> THEN JUndef ELSE d.a[1]
      content == IF first.t \in {"undefined", "null"} THEN JUndef ELSE Get(first, "content")
  IN IF content.t # "array" THEN JUndef
     ELSE LET hit(k) == Get(content.a[k], "type") \in TextItemTypes
              upto(k) == \A j \in 1..(k - 1) :
                            content.a[j].t \notin {"undefined", "null"} /\ ~hit(j)
          IN IF \E k \in 1..Len(content.a) :
                   upto(k) /\ content.a[k].t \in {"undefined", "null"}
               THEN Thrown
             ELSE IF \E k \in 1..Len(content.a) : upto(k) /\ hit(k)
               THEN content.a[CHOOSE k \in 1..Len(content.a) : upto(k) /\ hit(k)]
             ELSE JUndef

parseOut(d) ==
  LET text == IF d.t \in {"undefined", "null"} THEN JUndef ELSE Get(d, "output_text")
      output == IF d.t \in {"undefined", "null"} THEN JUndef ELSE Get(d, "output")
      caught(v) == IF v = Thrown THEN JNull ELSE v
  IN IF Truthy(text) THEN caught(JSONparse(text))
     ELSE IF output.t = "array"
       THEN LET item == FindTextItem(output)
            IN IF item = Thrown THEN JNull
               ELSE IF item.t \notin {"undefined", "null"} /\ Truthy(Get(item, "text"))
                 THEN caught(JSONparse(Get(item, "text")))
               ELSE JNull
     ELSE JNull

\* res is [n, status, body]; body is the payload, or Garbage when res.json() rejects
CallOnceResult(res) ==
  LET data == IF res.body = Garbage THEN JNull ELSE res.body
  IN [ok |-> IsOk(res.status), parsed |-> parseOut(data), raw |-> data,
      status |-> res.status, n |-> res.n]

-----------------------------------------------------------------------------
(* handler: what follows the last generation call                          *)
Stage(v) == Get(v, "stage")
Intake == JStr(<<"intake">>)
Advice == JStr(<<"advice">>)

\* a variant that always takes the first question of the bank
IntakeStepFirst(c) == 0

IntakeStep(c) == Min(c.assistantTurns, MAX_INTAKE_TURNS - 1)
\* a variant whose synthesized result is always an intake question
SafeResultIntakeOnly(c, question) ==
  JObj([stage |-> Intake,
        topic_type |-> JStr(<<c.topicHint>>),
        chat_reply |-> JStr(fallbackQuestion(IntakeStep(c), question, JStr(<<c.topicHint>>))),
        disclaimer |-> JStr(FRIENDLY_OPENER)])

\* the synthesized result returned when the last call is unusable
SafeResult(c, question) ==
  JObj([stage |-> IF c.urgentFlag THEN Advice ELSE Intake,
        topic_type |-> JStr(<<c.topicHint>>),
        chat_reply |-> IF c.urgentFlag THEN JStr(URGENT_REPLY)
                       ELSE JStr(fallbackQuestion(IntakeStep(c), question, JStr(<<c.topicHint>>))),
        advice_text |-> IF c.urgentFlag THEN JStr(URGENT_ADVICE) ELSE JUndef,
        disclaimer |-> JStr(FRIENDLY_OPENER),
        final_reminder |-> JStr(FINAL_REMINDER_DEFAULT)])

IntakeRepair(p, c, question) ==
  IF Stage(p) = Intake
    THEN enforceOneQuestion(p, IntakeStep(c), question,
                            OrElse(Get(p, "topic_type"), JStr(<<c.topicHint>>)))
    ELSE p

\* (list || []).slice(0, n) followed by .length and .join("; "): a truthy value
\* that is no array has no join (a string) or no slice (the others)
Listable(list) == ~Truthy(list) \/ list.t = "array"

Listed(list, n) ==
  IF ~Truthy(list) THEN <<>>
  ELSE LET items == SliceFirst(list.a, n)
       IN [k \in 1..Len(items) |-> ToStr(items[k])]

DefaultAdvice(p) ==
  IF ~Listable(Get(p, "urgent_triggers")) \/ ~Listable(Get(p, "info_gaps")) THEN Thrown
  ELSE LET watch == Listed(Get(p, "urgent_triggers"), 5)
           gaps == Listed(Get(p, "info_gaps"), 3)
           parts ==
             << <<"Quick take - based on what you shared, here's a general picture.">>,
                <<"Don't-miss to rule out - a few serious possibilities clinicians consider.">>,
                <<"What clinicians often do first - focused history/exam and common labs or scans.">>,
                IF watch # <<>> THEN <<"Watch-outs (urgent): ">> \o Join(watch, <<"; ">>) ELSE <<>>,
                IF gaps # <<>> THEN <<"What to bring/track: ">> \o Join(gaps, <<"; ">>) ELSE <<>>,
                Get(p, "final_reminder").s >>
           kept == FilterSeq(parts, {x \in Range(parts) : x # <<>>})
       IN Put(p, "advice_text", JStr(sanitizeAdvice(JStr(Join(kept, <<"\n", "\n">>)))))

AdviceRepair(p) ==
  IF p = Thrown \/ Stage(p) # Advice THEN p
  ELSE LET p1 == Put(p, "disclaimer", JStr(FRIENDLY_OPENER))
           p2 == IF Truthy(Get(p1, "advice_text"))
                   THEN Put(p1, "advice_text", JStr(sanitizeAdvice(Get(p1, "advice_text"))))
                   ELSE p1
           fr == Get(p2, "final_reminder")
       IN IF Truthy(fr) /\ fr.t # "string" THEN Thrown
          ELSE LET p3 == IF ~Truthy(fr) \/ Trim(fr.s) = <<>>
                           THEN Put(p2, "final_reminder", JStr(FINAL_REMINDER_DEFAULT))
                           ELSE p2
                   text == Get(p3, "advice_text")
               IN IF ~Truthy(text) \/ StrLen(Trim(text.s)) < MinAdviceLen
                    THEN DefaultAdvice(p3)
                    ELSE p3

\* absolute safeguard: never return an empty chat_reply
Safeguard(p, c, question) ==
  IF p = Thrown THEN Thrown
  ELSE LET reply == Get(p, "chat_reply")
       IN IF Truthy(reply) /\ reply.t # "string" THEN Thrown
          ELSE IF ~Truthy(reply) \/ Trim(reply.s) = <<>>
            THEN Put(Put(p, "stage", Intake), "chat_reply",
                     JStr(fallbackQuestion(IntakeStep(c), question,
                                           OrElse(Get(p, "topic_type"), JStr(<<c.topicHint>>)))))
          ELSE p

\* r is the {ok, parsed, raw, status} of the last callOnce
Finish(r, c, question) ==
  IF ~r.ok \/ ~Truthy(r.parsed)
    THEN Response(200, Emit(JObj([ok |-> JBool(TRUE),
                                  result |-> Emit(SafeResult(c, question)),
                                  raw |-> r.raw])))
  ELSE LET p == Safeguard(AdviceRepair(IntakeRepair(r.parsed, c, question)), c, question)
       IN IF p = Thrown THEN Threw
          ELSE Response(200, JObj([ok |-> JBool(TRUE), result |-> Emit(p)]))
\* a variant without the urgency trigger
ShouldForceAdviceTurnsOnly(r, c) ==
  (~r.ok \/ ~Truthy(r.parsed) \/ Stage(r.parsed) # Advice)
    /\ c.assistantTurns >= MAX_INTAKE_TURNS

\* force advice after MAX_INTAKE_TURNS or if urgent
ShouldForceAdvice(r, c) ==
  (~r.ok \/ ~Truthy(r.parsed) \/ Stage(r.parsed) # Advice)
    /\ (c.urgentFlag \/ c.assistantTurns >= MAX_INTAKE_TURNS)

-----------------------------------------------------------------------------
(* handler: validation and moderation                                      *)
\* JSON.parse(event.body || "{}")
ParsedBody(ev) == IF Truthy(ev.body) THEN JSONparse(ev.body) ELSE JObj(<<>>)

QuestionOf(ev) == Get(ParsedBody(ev), "question")

\* history: rawHistory = []
RawHistoryOf(ev) ==
  IF Get(ParsedBody(ev), "history") = JUndef THEN JArr(<<>>)
  ELSE Get(ParsedBody(ev), "history")

\* a variant that never misses the credential
MissingKeyNever(key) == FALSE

\* !OPENAI_API_KEY
MissingKey(key) == key = ""

\* everything before the moderation request; Pending when the request passes
Validate(ev, key) ==
  IF ev.httpMethod # "POST" THEN Response(405, JStr(<<"Method Not Allowed">>))
  ELSE IF ParsedBody(ev) = Thrown THEN Response(400, ErrorBody("Invalid JSON"))
  ELSE IF ParsedBody(ev).t \in {"undefined", "null"} THEN Threw
  ELSE LET question == QuestionOf(ev)
       IN IF ~Truthy(question)
            THEN Response(400, JObj([error |-> JStr(<<"Please add a bit more detail.">>)]))
          ELSE IF question.t # "string" THEN Threw
          ELSE IF StrLen(Trim(question.s)) < MinQuestionLen
            THEN Response(400, JObj([error |-> JStr(<<"Please add a bit more detail.">>)]))
          ELSE IF MissingKey(key) THEN Response(500, JObj([error |-> JStr(<<"Missing OPENAI_API_KEY">>)]))
          ELSE Pending
\* a variant that moderates the whole conversation
ModerationInputConversation(ev) == JArr(<<RawHistoryOf(ev), QuestionOf(ev)>>)

\* the body of the moderation request
ModerationInput(ev) == QuestionOf(ev)

\* modJson?.error?.message
UpstreamMessage(modJson) ==
  LET err == IF modJson.t \in {"undefined", "null"} THEN JUndef ELSE Get(modJson, "error")
  IN IF err.t \in {"undefined", "null"} THEN JUndef ELSE Get(err, "message")

\* modJson.results?.[0]?.flagged, for a modJson that is neither null nor undefined
Flagged(modJson) ==
  LET results == Get(modJson, "results")
      first == IF results.t = "array" /\ results.a # <<>> THEN results.a[1] ELSE JUndef
  IN IF first.t \in {"undefined", "null"} THEN JUndef ELSE Get(first, "flagged")
\* a variant that lets a flagged question through
ModerateIgnoringFlag(m) ==
  IF m.kind = "rejected" \/ m.body = Garbage
    THEN Response(500, ErrorBody("Moderation request failed"))
  ELSE IF ~IsOk(m.status)
    THEN Response(m.status,
                  JObj([ok |-> JBool(FALSE),
                        error |-> OrElse(UpstreamMessage(m.body), JStr(<<"Moderation failed">>))]))
  ELSE IF m.body.t \in {"undefined", "null"}
    THEN Response(500, ErrorBody("Moderation request failed"))
  ELSE Pending

\* a variant that fails open when the moderation request cannot be made or read
ModerateFailOpen(m) ==
  IF m.kind = "rejected" \/ m.body = Garbage THEN Pending
  ELSE IF ~IsOk(m.status)
    THEN Response(m.status,
                  JObj([ok |-> JBool(FALSE),
                        error |-> OrElse(UpstreamMessage(m.body), JStr(<<"Moderation failed">>))]))
  ELSE IF m.body.t \in {"undefined", "null"}
    THEN Response(500, ErrorBody("Moderation request failed"))
  ELSE IF Truthy(Flagged(m.body))
    THEN Response(400, ErrorBody("Question blocked by moderation."))
  ELSE Pending

\* the moderation step; Pending when the request passes
Moderate(m) ==
  IF m.kind = "rejected" \/ m.body = Garbage
    THEN Response(500, ErrorBody("Moderation request failed"))
  ELSE IF ~IsOk(m.status)
    THEN Response(m.status,
                  JObj([ok |-> JBool(FALSE),
                        error |-> OrElse(UpstreamMessage(m.body), JStr(<<"Moderation failed">>))]))
  ELSE IF m.body.t \in {"undefined", "null"}
    THEN Response(500, ErrorBody("Moderation request failed"))
  ELSE IF Truthy(Flagged(m.body))
    THEN Response(400, ErrorBody("Question blocked by moderation."))
  ELSE Pending

\* normalize history, count assistant turns, classify
Classify(ev) ==
  LET history == normalizeHistory(RawHistoryOf(ev))
  IN [history |-> history,
      assistantTurns |-> Len(FilterSeq(history, {x \in Range(history) : x.role = "assistant"})),
      topicHint |-> inferTopic(QuestionOf(ev), history),
      urgentFlag |-> detectUrgency(QuestionOf(ev))]

NoCtx == [history |-> <<>>, assistantTurns |-> 0, topicHint |-> "other", urgentFlag |-> FALSE]
NoRes == [n |-> 0, status |-> 0, body |-> JUndef]
NoResult == [ok |-> FALSE, parsed |-> JUndef, raw |-> JUndef, status |-> 0, n |-> 0]
NoEvent == [httpMethod |-> "", body |-> JUndef]
NotSettled == [kind |-> "none", status |-> 0, body |-> JUndef]

-----------------------------------------------------------------------------
(* The inputs of one invocation                                            *)
RECURSIVE SeqsUpTo(_, _)
SeqsUpTo(S, n) ==
  IF n = 0 THEN {<<>>}
  ELSE SeqsUpTo(S, n - 1) \cup {Append(a, x) : a \in SeqsUpTo(S, n - 1), x \in S}

Turn(role, content) == JObj([role |-> JStr(<<role>>), content |-> JStr(content)])

TurnSamples == {Turn("user", <<"rash">>), Turn("assistant", <<"When did it start", "?">>)}

HistorySamples ==
  {JUndef, JStr(<<"rash">>),
   JArr(<<Turn("system", <<"vitamin">>), JNull, Turn("assistant", <<"When did it start", "?">>)>>)}
    \cup {JArr(a) : a \in SeqsUpTo(TurnSamples, MaxHist)}

ValidQuestions ==
  {JStr(<<"headache">>), JStr(<<"vitamin">>), JStr(<<"crushing chest">>),
   JStr(<<"growth">>)}

InvalidQuestions ==
  {JUndef, JStr(<<>>), JStr(<<" ", "a", " ">>), JNum(5), JBool(TRUE), JArr(<<>>)}

RequestBody(question, history) ==
  JText(Emit(JObj([question |-> question, history |-> history])))

Events ==
  {[httpMethod |-> "GET", body |-> JUndef]}
    \cup {[httpMethod |-> "POST", body |-> b] :
            b \in {JUndef, Garbage, JText(JNull), JText(JNum(5))}}
    \cup {[httpMethod |-> "POST", body |-> RequestBody(q, JUndef)] : q \in InvalidQuestions}
    \cup {[httpMethod |-> "POST", body |-> RequestBody(q, h)] :
            q \in ValidQuestions, h \in HistorySamples}

ApiKeys == {"", "sk-test"}

Verdict(flagged) == JObj([results |-> JArr(<<JObj([flagged |-> flagged])>>)])

ModerationOutcomes ==
  {[kind |-> "rejected", status |-> 0, body |-> JUndef]}
    \cup {[kind |-> "response", status |-> 200, body |-> b] :
            b \in {Garbage, JNull, Verdict(JBool(TRUE)), Verdict(JBool(FALSE)),
                   JObj([results |-> JArr(<<>>)])}}
    \cup {[kind |-> "response", status |-> st, body |-> b] :
            st \in {400, 429, 500},
            b \in {Garbage, JNull, JObj(<<>>),
                   JObj([error |-> JObj([message |-> JStr(<<"upstream error message">>)])])}}

\* what the backend's output text may parse to
Field(name, v) == IF v = JUndef THEN <<>> ELSE [k \in {name} |-> v]
Merge(f, g) == [k \in DOMAIN f \cup DOMAIN g |-> IF k \in DOMAIN g THEN g[k] ELSE f[k]]

ReplySamples ==
  {JUndef, JStr(<<" ">>), JStr(<<"Tell me more.">>), JStr(<<"When did it start", "?">>),
   JStr(<<"When did it start", "?", " ", "Any fever", "?">>),
   JStr(<<"How bad is it, ", "0-10", "?">>), JNum(5)}
TopicSamples == {JStr(<<"vitamin_or_med">>), JStr(<<"dental">>)}
LongAdvice ==
  JStr(<<"A long enough explanation of common causes and what clinicians check.">>)
ReminderSamples == {JUndef, JStr(<<" ">>), JStr(<<"See your clinician.">>), JNum(5)}
TriggerSamples == {JArr(<<JStr(<<"chest pain">>)>>), JStr(<<"chest pain">>)}

Overview == JStr(<<"Here is an overview.">>)

OutputObjects ==
  {JObj(Merge([stage |-> Intake], Field("chat_reply", cr))) : cr \in ReplySamples}
    \cup {JObj(Merge([stage |-> Advice], Field("chat_reply", cr))) :
            cr \in {JUndef, JStr(<<" ">>), JNum(5)}}
    \cup {JObj(Merge(Field("stage", st), [chat_reply |-> JStr(<<"Tell me more.">>)])) :
            st \in {JUndef, JStr(<<"triage">>)}}
    \cup {JObj([stage |-> JStr(<<"triage">>)])}
    \cup {JObj([stage |-> Intake, chat_reply |-> JStr(<<"How bad is it, ", "0-10", "?">>),
                topic_type |-> tp]) : tp \in TopicSamples}
    \cup {JObj([stage |-> Intake, topic_type |-> JStr(<<"dental">>)])}
    \cup {JObj(Merge([stage |-> Advice, chat_reply |-> Overview,
                      advice_text |-> LongAdvice], Field("final_reminder", fr))) :
            fr \in ReminderSamples}
    \cup {JObj([stage |-> Advice, chat_reply |-> Overview,
                advice_text |-> JStr(<<"Take", " ", "5 mg">>), urgent_triggers |-> ut]) :
            ut \in TriggerSamples}

OutputValues ==
  {JNull, JNum(5), JStr(<<"hello">>), JBool(TRUE), JArr(<<JStr(<<"hello">>)>>)}
    \cup OutputObjects

TextItem(v) ==
  JObj([output |-> JArr(<<JObj([content |->
          JArr(<<JObj([type |-> JStr(<<"output_text">>), text |-> v])>>)])>>)])

SuccessPayloads ==
  {Garbage, JObj(<<>>), JObj([output_text |-> Garbage]),
   TextItem(JText(JObj([stage |-> Advice, chat_reply |-> Overview])))}
    \cup {JObj([output_text |-> JText(v)]) : v \in OutputValues}

UpstreamError == JObj([error |-> JObj([message |-> JStr(<<"upstream error message">>)])])

CompletionResponses(n) ==
  {[n |-> n, status |-> 200, body |-> b] : b \in SuccessPayloads}
    \cup {[n |-> n, status |-> 429, body |-> UpstreamError]}
    \cup {[n |-> n, status |-> 500, body |-> b] :
            b \in {UpstreamError,
                   JObj([output_text |-> JText(JObj([stage |-> Advice, chat_reply |-> Overview]))])}}

-----------------------------------------------------------------------------
(* The invocation as a state machine                                       *)
Init ==
  /\ pc = "idle"
  /\ event = NoEvent
  /\ apiKey = ""
  /\ ctx = NoCtx
  /\ forceAdvice = FALSE
  /\ i = 0
  /\ wait = InitialWait
  /\ last = NoRes
  /\ callResult = NoResult
  /\ outcome = Pending
  /\ modLog = <<>>
  /\ modSeen = NotSettled
  /\ calls = <<>>
  /\ sentTotal = 0
  /\ slept = <<>>
  /\ inflight = 0
  /\ norm = Normalized(JUndef)
  /\ side = NoSide
  /\ probe = NoProbe
\* a variant that retries every error status
ShouldRetryAnyError(status) == status >= 400

\* callOpenAIWithBackoff: a response is retried only when it is a 429
ShouldRetry(status) == status = 429

\* a variant with one more attempt
MoreTriesOnceMore(k) == k < Tries + 1

\* callOpenAIWithBackoff: the loop goes on after k requests
MoreTries(k) == k < Tries
\* a variant that sleeps the same delay every time
NextWaitConstant(w) == w

\* callOpenAIWithBackoff: wait *= 2
NextWait(w) == w * 2
\* a variant that forces again after a forced call
ForceNowRepeatedly(force, r, c) == ShouldForceAdvice(r, c)

\* the handler makes the forced call once, after the first attempt
ForceNow(force, r, c) == ~force /\ ShouldForceAdvice(r, c)

\* the log of the running call, updated
Logged(field, v) == [calls EXCEPT ![Len(calls)][field] = v]
Running == calls[Len(calls)]

\* return from the handler
Return(result) ==
  /\ outcome' = result
  /\ pc' = "done"

\* callOnce(force): build the messages, enter callOpenAIWithBackoff, send request 1
StartCallOnce(force, log) ==
  /\ forceAdvice' = force
  /\ calls' = Append(log, [force |-> force, sent |-> 1, statuses |-> <<>>, returned |-> 0])
  /\ i' = 0
  /\ wait' = InitialWait
  /\ last' = NoRes
  /\ sentTotal' = sentTotal + 1
  /\ pc' = "fetching"
  /\ outcome' = outcome

\* exports.handler up to the moderation request
Invoke(ev, key) ==
  /\ pc = "idle"
  /\ event' = ev
  /\ apiKey' = key
  /\ IF Validate(ev, key) # Pending
       THEN /\ Return(Validate(ev, key))
            /\ UNCHANGED <<modLog, inflight>>
       ELSE /\ modLog' = Append(modLog, ModerationInput(ev))
            /\ inflight' = inflight + 1
            /\ pc' = "moderating"
            /\ outcome' = outcome
  /\ UNCHANGED <<ctx, forceAdvice, i, wait, last, callResult, modSeen, calls, sentTotal,
                 slept, norm, side, probe>>

\* the moderation request settles; on a pass the first generation call starts
ModerationSettles(m) ==
  /\ pc = "moderating"
  /\ modSeen' = m
  /\ IF Moderate(m) # Pending
       THEN /\ Return(Moderate(m))
            /\ inflight' = inflight - 1
            /\ UNCHANGED <<ctx, forceAdvice, i, wait, last, calls, sentTotal>>
       ELSE /\ ctx' = Classify(event)
            /\ StartCallOnce(FALSE, calls)
            /\ inflight' = inflight
  /\ UNCHANGED <<event, apiKey, callResult, modLog, slept, norm, side, probe>>

\* the fetch of a completion request rejects: nothing catches it
FetchRejects ==
  /\ pc = "fetching"
  /\ Return(Threw)
  /\ inflight' = inflight - 1
  /\ UNCHANGED <<event, apiKey, ctx, forceAdvice, i, wait, last, callResult, modLog,
                 modSeen, calls, sentTotal, slept, norm, side, probe>>

\* callOpenAIWithBackoff returns res: the rest of callOnce and of the handler.
\* log is the calls so far; settled is the number of requests that settle in this step
AfterBackoff(res, log, settled) ==
  LET r == CallOnceResult(res)
      done == [log EXCEPT ![Len(log)].returned = res.n]
  IN /\ callResult' = r
     /\ IF ForceNow(forceAdvice, r, ctx)
          THEN /\ StartCallOnce(TRUE, done)
               /\ inflight' = inflight - settled + 1
          ELSE /\ Return(Finish(r, ctx, QuestionOf(event)))
               /\ calls' = done
               /\ inflight' = inflight - settled
               /\ UNCHANGED <<forceAdvice, i, wait, last, sentTotal>>

\* a completion request gets a response
FetchReturns(res) ==
  /\ pc = "fetching"
  /\ IF ~ShouldRetry(res.status)
       THEN AfterBackoff(res, Logged("statuses", Append(Running.statuses, res.status)), 1)
       ELSE /\ last' = res
            /\ calls' = Logged("statuses", Append(Running.statuses, res.status))
            /\ inflight' = inflight - 1
            /\ pc' = "sleeping"
            /\ UNCHANGED <<forceAdvice, i, wait, callResult, outcome, sentTotal>>
  /\ UNCHANGED <<event, apiKey, ctx, modLog, modSeen, slept, norm, side, probe>>

\* the backoff timer fires: wait *= 2, i++, then the next request or return last
BackoffElapses ==
  /\ pc = "sleeping"
  /\ slept' = Append(slept, wait)
  /\ IF MoreTries(i + 1)
       THEN /\ i' = i + 1
            /\ wait' = NextWait(wait)
            /\ calls' = Logged("sent", Running.sent + 1)
            /\ sentTotal' = sentTotal + 1
            /\ inflight' = inflight + 1
            /\ pc' = "fetching"
            /\ UNCHANGED <<forceAdvice, last, callResult, outcome>>
       ELSE AfterBackoff(last, calls, 0)
  /\ UNCHANGED <<event, apiKey, ctx, modLog, modSeen, norm, side, probe>>

Next ==
  \/ \E ev \in Events, key \in ApiKeys : Invoke(ev, key)
  \/ \E m \in ModerationOutcomes : ModerationSettles(m)
  \/ FetchRejects
  \/ \E res \in CompletionResponses(sentTotal) : FetchReturns(res)
  \/ BackoffElapses

Spec == Init /\ [][Next]_vars

\* every outbound request settles, with a response or an error, and every backoff
\* timer fires
Settling ==
  /\ WF_vars(\E m \in ModerationOutcomes : ModerationSettles(m))
  /\ WF_vars(FetchRejects \/ \E res \in CompletionResponses(sentTotal) : FetchReturns(res))
  /\ WF_vars(BackoffElapses)

LiveSpec == Spec /\ Settling

-----------------------------------------------------------------------------
(* normalizeHistory on its own, on inputs longer than the handler's samples *)
PositionToks == <<"m1", "m2", "m3", "m4", "m5", "m6", "m7", "m8", "m9", "m10",
                  "m11", "m12", "m13", "m14", "m15", "m16">>

\* a well-formed turn for position k: roles alternate, every fifth content is
\* longer than ContentCap
TurnAt(k) ==
  Turn(IF k % 2 = 1 THEN "user" ELSE "assistant",
       IF k % 5 = 0 THEN <<LongTok, PositionToks[k]>> ELSE <<PositionToks[k]>>)

\* an entry for position k that the filter has to drop
StrayAt(k) ==
  CASE k % 5 = 1 -> JNull
    [] k % 5 = 2 -> Turn("system", <<PositionToks[k]>>)
    [] k % 5 = 3 -> JObj([role |-> JStr(<<"user">>), content |-> JNum(5)])
    [] k % 5 = 4 -> JStr(<<PositionToks[k]>>)
    [] OTHER -> JObj([content |-> JStr(<<PositionToks[k]>>)])

NonArrays == {JNull, JStr(<<"rash">>), JNum(5), JObj([length |-> JNum(1)])}

\* normalizeHistory is given something that is not an array
RawLen == IF norm.raw.t = "array" THEN Len(norm.raw.a) ELSE 0

NormalizeValue(v) ==
  /\ norm.raw = JUndef
  /\ norm' = Normalized(v)
  /\ UNCHANGED <<invocation, side, probe>>

\* normalizeHistory is given the array so far with one more entry
NormalizeLonger(x) ==
  /\ norm.raw.t \in {"undefined", "array"}
  /\ RawLen < MaxRaw
  /\ norm' = Normalized(JArr((IF norm.raw.t = "array" THEN norm.raw.a ELSE <<>>) \o <<x>>))
  /\ UNCHANGED <<invocation, side, probe>>

NormNext ==
  \/ \E v \in NonArrays \cup {JArr(<<>>)} : NormalizeValue(v)
  \/ \E x \in {TurnAt(RawLen + 1), StrayAt(RawLen + 1)} :
       NormalizeLonger(x)

NormSpec == Init /\ [][NormNext]_vars

-----------------------------------------------------------------------------
(* The handlers of the repository side by side. Each runs in the steps:   *)
(* enter and validate, moderation settles, completion call returns. The    *)
(* completion call is one step: it yields the response the fetch, or       *)
(* callOpenAIWithBackoff, hands back, or the rejection of the fetch.        *)
AskJs == "netlify/functions/ask.js"
MedQa == "med-qa/netlify/functions/ask.js"
Part001 == "unnamed/part_001"
Part000 == "unnamed/part_000"

MinQuestionLenQA == 10

LongerError == JObj([error |-> JStr(<<"Please ask a longer question.">>)])
MissingKeyError == JObj([error |-> JStr(<<"Missing OPENAI_API_KEY">>)])

\* med-qa: JSON.parse is not in a try; question.trim() is called on any truthy value
ValidateMedQa(ev, key) ==
  IF ev.httpMethod # "POST" THEN Response(405, JStr(<<"Method Not Allowed">>))
  ELSE IF ParsedBody(ev) = Thrown THEN Threw
  ELSE IF ParsedBody(ev).t \in {"undefined", "null"} THEN Threw
  ELSE LET question == QuestionOf(ev)
       IN IF ~Truthy(question) THEN Response(400, LongerError)
          ELSE IF question.t # "string" THEN Threw
          ELSE IF StrLen(Trim(question.s)) < MinQuestionLenQA THEN Response(400, LongerError)
          ELSE IF MissingKey(key) THEN Response(500, MissingKeyError)
          ELSE Pending

\* part_001: JSON.parse is not in a try; typeof question is checked
ValidatePart001(ev, key) ==
  IF ev.httpMethod # "POST" THEN Response(405, JStr(<<"Method Not Allowed">>))
  ELSE IF ParsedBody(ev) = Thrown THEN Threw
  ELSE IF ParsedBody(ev).t \in {"undefined", "null"} THEN Threw
  ELSE LET question == QuestionOf(ev)
       IN IF ~Truthy(question) \/ question.t # "string"
               \/ StrLen(Trim(question.s)) < MinQuestionLenQA
            THEN Response(400, LongerError)
          ELSE IF MissingKey(key) THEN Response(500, MissingKeyError)
          ELSE Pending

\* med-qa: the moderation step has no try/catch and tests status !== 200
ModerateMedQa(m) ==
  IF m.kind = "rejected" \/ m.body = Garbage THEN Threw
  ELSE IF m.status # 200 THEN Response(m.status, Emit(m.body))
  ELSE IF m.body.t \in {"undefined", "null"} THEN Threw
  ELSE IF Truthy(Flagged(m.body))
    THEN Response(400, JObj([error |-> JStr(<<"Question blocked by moderation.">>)]))
  ELSE Pending

\* med-qa: the structured JSON out of the payload; undefined when the try throws
ParsedMedQa(d) ==
  IF d.t \in {"undefined", "null"} THEN JUndef
  ELSE IF Truthy(Get(d, "output_text"))
    THEN (IF JSONparse(Get(d, "output_text")) = Thrown THEN JUndef
          ELSE JSONparse(Get(d, "output_text")))
  ELSE IF Get(d, "output").t = "array"
    THEN LET item == FindTextItem(Get(d, "output"))
             text == IF item = Thrown \/ item.t \in {"undefined", "null"} THEN JUndef
                     ELSE Get(item, "text")
         IN IF item = Thrown THEN JUndef
            ELSE IF text.t \in {"undefined", "null"} THEN JObj(<<>>)
            ELSE IF JSONparse(text) = Thrown THEN JUndef
            ELSE JSONparse(text)
  ELSE JUndef

\* what the front end gets from med-qa and part_001
Payload(parsed, data) ==
  IF Truthy(parsed) THEN JObj([ok |-> JBool(TRUE), result |-> Emit(parsed)])
  ELSE Emit(JObj([ok |-> JBool(FALSE), raw |-> data]))

\* med-qa: one fetch, res.json() not in a try, the status passed through
FinishMedQa(res) ==
  IF res.kind = "rejected" \/ res.body = Garbage THEN Threw
  ELSE Response(res.status, Payload(ParsedMedQa(res.body), res.body))

\* data?.error?.message || data?.message || "OpenAI request failed"
FailureMessage(data) ==
  OrElse(UpstreamMessage(data),
         OrElse(IF data.t \in {"undefined", "null"} THEN JUndef ELSE Get(data, "message"),
                JStr(<<"OpenAI request failed">>)))

\* part_001: res.json() not in a try, an error status passed through
FinishPart001(res) ==
  IF res.kind = "rejected" \/ res.body = Garbage THEN Threw
  ELSE IF ~IsOk(res.status)
    THEN Response(res.status,
                  JObj([ok |-> JBool(FALSE), error |-> FailureMessage(res.body)]))
  ELSE Response(200, Payload(parseOut(res.body), res.body))

-----------------------------------------------------------------------------
(* unnamed/part_000, first handler: an earlier text of ask.js              *)
\* inferTopic without the pregnancy and the fatigue rules
inferTopic000(userText, history) ==
  LET contents == [k \in 1..Len(history) |-> history[k].content]
      txt == ToLower(Join(contents, <<" ">>) \o <<" ">> \o OrElse(userText, JStr(<<>>)).s)
  IN CASE Has(txt, LabTestToks) -> "lab_test"
       [] Has(txt, MedToks) -> "vitamin_or_med"
       [] Has(txt, RashToks) -> "symptom_rash"
       [] Has(txt, HeadacheToks) -> "symptom_headache"
       [] Has(txt, AbdominalToks) -> "symptom_abdominal"
       [] Has(txt, GrowthToks) -> "growth_development"
       [] Has(txt, CardiorespToks) -> "symptom_cardioresp"
       [] OTHER -> "other"

\* the bank of part_000: eight topics, two of them worded differently
QuestionBank000 ==
  [k \in DOMAIN QuestionBank \ {"pregnancy_related", "fatigue_hair"} |->
     CASE k = "lab_test" ->
            << <<"What test are you asking about and what was the number and unit (if you have it)", "?">>,
               <<"Why was the test done, and have you had symptoms like red, hot, painful joints", "?">> >>
       [] k = "growth_development" ->
            << QuestionBank.growth_development[1],
               <<"Have you started puberty changes yet (e.g., growth spurt, voice change, periods)", "?",
                 " ", "If you know, what are your parents' heights", "?">> >>
       [] OTHER -> QuestionBank[k]]

fallbackQuestion000(step, userText, topic) ==
  LET key == IF topic.t = "undefined" THEN <<"other">> ELSE ToStr(topic)
      arr == IF Len(key) = 1 /\ key[1] \in DOMAIN QuestionBank000
               THEN QuestionBank000[key[1]] ELSE QuestionBank000.other
      s == arr[Min(step, Len(arr) - 1) + 1]
  IN IF EndsWith(s, "?") THEN s ELSE s \o <<"?">>

enforceOneQuestion000(o, step, userText, topic) ==
  LET reply == OrElse(Get(o, "chat_reply"), JStr(<<>>))
  IN IF reply.t # "string" THEN Thrown
     ELSE LET q0 == Trim(reply.s)
              qm == IndexOf(q0, "?")
              q1 == IF qm # 0 THEN SubSeq(q0, 1, qm) ELSE q0
              q2 == IF (q1 = <<>> \/ ~EndsWith(q1, "?"))
                       \/ (MentionsScale(q1) /\ ~topicAllowsPainScale(topic))
                      THEN fallbackQuestion000(step, userText, topic)
                      ELSE q1
          IN Put(Put(o, "chat_reply", JStr(q2)), "ask_back", JStr(<<>>))

\* part_000 has no urgency detection: urgentFlag stays FALSE
Classify000(ev) ==
  LET history == normalizeHistory(RawHistoryOf(ev))
  IN [history |-> history,
      assistantTurns |-> Len(FilterSeq(history, {x \in Range(history) : x.role = "assistant"})),
      topicHint |-> inferTopic000(QuestionOf(ev), history),
      urgentFlag |-> FALSE]

\* force advice after MAX_INTAKE_TURNS if the model did not switch
ShouldForce000(r, c) ==
  (~r.ok \/ ~Truthy(r.parsed) \/ Stage(r.parsed) # Advice)
    /\ c.assistantTurns >= MAX_INTAKE_TURNS

GENERAL_EDUCATION == <<"General education only - not medical advice.">>

\* the safe intake question returned when the last call is unusable
SafeResult000(c, question) ==
  JObj([stage |-> Intake,
        topic_type |-> JStr(<<c.topicHint>>),
        chat_reply |-> JStr(fallbackQuestion000(IntakeStep(c), question, JStr(<<c.topicHint>>))),
        disclaimer |-> JStr(GENERAL_EDUCATION)])

IntakeRepair000(p, c, question) ==
  IF Stage(p) = Intake
    THEN enforceOneQuestion000(p, IntakeStep(c), question,
                               OrElse(Get(p, "topic_type"), JStr(<<c.topicHint>>)))
    ELSE p

\* advice: ensure defaults and a brief intro; final_reminder is not touched
AdviceDefaults000(p) ==
  IF p = Thrown \/ Stage(p) # Advice THEN p
  ELSE LET p1 == Put(p, "disclaimer", OrElse(Get(p, "disclaimer"), JStr(GENERAL_EDUCATION)))
           reply == Get(p1, "chat_reply")
       IN IF Truthy(reply) /\ reply.t # "string" THEN Thrown
          ELSE IF ~Truthy(reply) \/ Trim(reply.s) = <<>>
            THEN Put(p1, "chat_reply",
                     JStr(<<"Here's a general overview based on what you've shared.">>))
          ELSE p1

Safeguard000(p, c, question) ==
  IF p = Thrown THEN Thrown
  ELSE LET reply == Get(p, "chat_reply")
       IN IF Truthy(reply) /\ reply.t # "string" THEN Thrown
          ELSE IF ~Truthy(reply) \/ Trim(reply.s) = <<>>
            THEN Put(Put(p, "stage", Intake), "chat_reply",
                     JStr(fallbackQuestion000(IntakeStep(c), question,
                                              OrElse(Get(p, "topic_type"), JStr(<<c.topicHint>>)))))
          ELSE p

Finish000(r, c, question) ==
  IF ~r.ok \/ ~Truthy(r.parsed)
    THEN Response(200, Emit(JObj([ok |-> JBool(TRUE),
                                  result |-> Emit(SafeResult000(c, question)),
                                  raw |-> r.raw])))
  ELSE LET p == Safeguard000(AdviceDefaults000(IntakeRepair000(r.parsed, c, question)),
                             c, question)
       IN IF p = Thrown THEN Threw
          ELSE Response(200, JObj([ok |-> JBool(TRUE), result |-> Emit(p)]))

-----------------------------------------------------------------------------
(* unnamed/part_002: the dual-mode variant of ask.js                       *)
Part002 == "unnamed/part_002"

MIN_INTAKE_TURNS == 2
MAX_INTAKE_TURNS_002 == 3

\* the tokens matched by one of the two isClinical expressions
ClinicalToks ==
  {"headache", "rash", "itch", "tummy", "chest pain", "severe chest pain",
   "shortness of breath", "pain to left arm", "severe pain", "high fever",
   "i have", "my"}

inferModeAndTopic(userText, history) ==
  LET contents == [k \in 1..Len(history) |-> history[k].content]
      txt == ToLower(Join(contents, <<" ">>) \o <<" ">> \o OrElse(userText, JStr(<<>>)).s)
      isClinical == Has(txt, ClinicalToks)
  IN [mode |-> IF isClinical THEN "clinical" ELSE "general",
      topic |->
        CASE Has(txt, LabTestToks) -> "lab_test"
          [] Has(txt, MedToks) -> "vitamin_or_med"
          [] Has(txt, RashToks) -> "symptom_rash"
          [] Has(txt, HeadacheToks) -> "symptom_headache"
          [] Has(txt, AbdominalToks) -> "symptom_abdominal"
          [] Has(txt, CardiorespToks) -> "symptom_cardioresp"
          [] Has(txt, GrowthToks) -> "growth_development"
          [] Has(txt, PregnancyToks) -> "pregnancy_related"
          [] Has(txt, HairLossToks) /\ Has(txt, FatigueToks) -> "fatigue_hair"
          [] Has(txt, {"wine", "alcohol"}) -> "general_wine"
          [] Has(txt, {"diabetes"}) /\ ~isClinical -> "general_diabetes"
          [] Has(txt, {"taller"}) /\ ~isClinical -> "general_height"
          [] OTHER -> "other"]

\* brand or product cues, and capitalized chunks
ProductToks == {"brand", "product", "Panadol"}

detectProductSpecific(userText) == Has(ToStr(OrElse(userText, JStr(<<>>))), ProductToks)

\* the red-flag patterns of part_002: those of ask.js and "trouble breathing"
detectUrgency002(userText) ==
  LET s == ToLower(ToStr(OrElse(userText, JStr(<<>>))))
  IN \/ Has(s, UrgentToks \cup {"trouble breathing"})
     \/ Then(s, PregnanToks, PregnancyAlarmToks)
     \/ Then(s, HighFeverToks, FeverAlarmToks)

GeneralQuestions ==
  << <<"What exactly are you most curious about - benefits, risks, or what good studies say", "?">>,
     <<"Are you asking for yourself or general interest, and what outcome matters most (energy, sleep, heart health, etc.)", "?">>,
     <<"Which specific type or example do you mean (if any)", "?">> >>

QuestionBank002 ==
  [vitamin_or_med |->
     << QuestionBank.vitamin_or_med[1], QuestionBank.vitamin_or_med[2],
        <<"Do you take other meds/supplements or have any conditions we should keep in mind", "?">> >>,
   lab_test |->
     << QuestionBank.lab_test[1],
        <<"Why was the test ordered, and any symptoms (e.g., red, hot, very painful joints)", "?">>,
        <<"When was it checked last, and are you on medicines that affect it", "?">> >>,
   symptom_headache |->
     << QuestionBank.symptom_headache[1], QuestionBank.symptom_headache[2],
        <<"Where is it (front/one side/behind an eye), and what does it feel like", "?">> >>,
   symptom_abdominal |->
     << QuestionBank.symptom_abdominal[1], QuestionBank.symptom_abdominal[2],
        <<"Is it sharp, crampy, or burning, and does it move or stay in one spot", "?">> >>,
   symptom_rash |->
     << QuestionBank.symptom_rash[1], QuestionBank.symptom_rash[2],
        <<"Any new soaps, creams, detergents, foods, meds, or insect bites", "?">> >>,
   symptom_cardioresp |->
     << QuestionBank.symptom_cardioresp[1], QuestionBank.symptom_cardioresp[2],
        <<"Any chest tightness, wheeze, cough with phlegm, or fever", "?">> >>,
   growth_development |->
     << QuestionBank.growth_development[1],
        <<"Have you started puberty changes yet (e.g., periods, growth spurt, voice change)", "?">>,
        <<"If you know them, what are your parents' heights", "?">> >>,
   pregnancy_related |->
     << QuestionBank.pregnancy_related[1],
        <<"Any bleeding, severe pain, fever, or reduced baby movements", "?">>,
        <<"Have you had any scans or check-ups yet, and were they reassuring", "?">> >>,
   fatigue_hair |->
     << <<"Are your periods heavy or irregular, and any recent illness, stress, or big weight change", "?">>,
        QuestionBank.fatigue_hair[2],
        <<"Any other symptoms like feeling cold, palpitations, or brittle nails", "?">> >>,
   other |->
     << QuestionBank.other[1], QuestionBank.other[2],
        <<"Where exactly is it, and what does it feel like", "?">> >>]

\* /\?\?+$/ -> "?"
RECURSIVE OneMarkAtEnd(_)
OneMarkAtEnd(s) ==
  IF Len(s) >= 2 /\ s[Len(s)] = "?" /\ s[Len(s) - 1] = "?"
    THEN OneMarkAtEnd(SubSeq(s, 1, Len(s) - 1))
    ELSE s

\* mode and topic are JavaScript values
fallbackQuestion002(step, userText, mode, topic) ==
  IF mode = JStr(<<"general">>)
    THEN OneMarkAtEnd(GeneralQuestions[Min(step, Len(GeneralQuestions) - 1) + 1] \o <<"?">>)
  ELSE LET key == IF topic.t = "undefined" THEN <<"other">> ELSE ToStr(topic)
           arr == IF Len(key) = 1 /\ key[1] \in DOMAIN QuestionBank002
                    THEN QuestionBank002[key[1]] ELSE QuestionBank002.other
           s == arr[Min(step, Len(arr) - 1) + 1]
       IN IF EndsWith(s, "?") THEN s ELSE s \o <<"?">>

Softened002(verb) ==
  <<"* People sometimes ", ToLowerTok(verb), "... (discuss with a clinician)">>

RECURSIVE Replaced002(_, _)
Replaced002(s, lineStart) ==
  IF lineStart /\ StartsImperative(s)
    THEN Softened002(Head(AfterLineStart(s))) \o Replaced002(Tail(AfterLineStart(s)), FALSE)
  ELSE IF s = <<>> THEN <<>>
  ELSE LET h == Head(s)
       IN CASE h \in DoseToks -> <<"a doctor-directed dose">> \o Replaced002(Tail(s), FALSE)
            [] h \in TimedToks -> <<"a short time">> \o Replaced002(Tail(s), FALSE)
            [] h \in FrequencyToks ->
                 <<"regularly as advised by a clinician">> \o Replaced002(Tail(s), FALSE)
            [] h \in ObligationToks ->
                 <<"it may be worth discussing with a clinician whether you could">>
                   \o Replaced002(Tail(s), FALSE)
            [] OTHER -> <<h>> \o Replaced002(Tail(s), h = "\n")

sanitizeAdvice002(text) == Trim(Tighten(Replaced002(ToStr(text), TRUE), 0))

IntakeStep002(c) == Min(c.assistantTurns, MAX_INTAKE_TURNS_002 - 1)

enforceOneQuestion002(o, step, userText, mode, topic) ==
  LET reply == OrElse(Get(o, "chat_reply"), JStr(<<>>))
  IN IF reply.t # "string" THEN Thrown
     ELSE LET q0 == Trim(reply.s)
              qm == IndexOf(q0, "?")
              q1 == IF qm # 0 THEN SubSeq(q0, 1, qm) ELSE q0
              q2 == IF (q1 = <<>> \/ ~EndsWith(q1, "?"))
                       \/ (MentionsScale(q1)
                             /\ mode = JStr(<<"clinical">>) /\ ~topicAllowsPainScale(topic))
                      THEN fallbackQuestion002(step, userText, mode, topic)
                      ELSE q1
              o1 == Put(o, "chat_reply", JStr(q2))
          IN IF Get(o1, "need_another_intake").t # "boolean"
               THEN Put(o1, "need_another_intake", JBool(step + 1 < MIN_INTAKE_TURNS))
               ELSE o1

\* normalize history, count assistant turns, infer mode and topic; urgency is
\* looked for in clinical mode only
Classify002(ev) ==
  LET history == normalizeHistory(RawHistoryOf(ev))
      hint == inferModeAndTopic(QuestionOf(ev), history)
  IN [history |-> history,
      assistantTurns |-> Len(FilterSeq(history, {x \in Range(history) : x.role = "assistant"})),
      modeHint |-> hint.mode,
      topicHint |-> hint.topic,
      productSpecific |-> detectProductSpecific(QuestionOf(ev)),
      urgentFlag |-> hint.mode = "clinical" /\ detectUrgency002(QuestionOf(ev))]

\* parsed?.need_another_intake === true
NeedMoreIntake(parsed) ==
  parsed.t \notin {"undefined", "null"} /\ Get(parsed, "need_another_intake") = JBool(TRUE)

forceAdviceNow(r, c) ==
  \/ c.urgentFlag
  \/ /\ c.assistantTurns >= MIN_INTAKE_TURNS
     /\ (~NeedMoreIntake(r.parsed) \/ c.assistantTurns >= MAX_INTAKE_TURNS_002)

\* the condition of the second call, made with the control message
ShouldForce002(r, c) ==
  \/ ~r.ok
  \/ ~Truthy(r.parsed)
  \/ (Stage(r.parsed) # Advice /\ forceAdviceNow(r, c))

URGENT_REPLY_002 ==
  <<"This sounds potentially urgent. If you have severe pain, trouble breathing, fainting, or stroke-like symptoms, please use urgent care now.">>

NEXT_STEP_DEFAULT ==
  <<"If things aren't improving or you're unsure, arranging a timely clinic visit with a qualified clinician is sensible.">>

BRAND_NOTICE ==
  <<"Note: I can't comment on specific products or brands. I'll speak generally about the category and what evidence says.",
    "\n", "\n">>

\* the safe result returned when the last call is unusable: it has no disclaimer
SafeResult002(c, question) ==
  JObj([stage |-> IF c.urgentFlag THEN Advice ELSE Intake,
        mode |-> JStr(<<c.modeHint>>),
        topic_type |-> JStr(<<c.topicHint>>),
        chat_reply |-> IF c.urgentFlag THEN JStr(URGENT_REPLY_002)
                       ELSE JStr(fallbackQuestion002(IntakeStep002(c), question,
                                                     JStr(<<c.modeHint>>), JStr(<<c.topicHint>>))),
        advice_text |-> IF c.urgentFlag
                          THEN JStr(FRIENDLY_OPENER \o <<"\n", "\n">>
                                      \o <<"Watch-outs (urgent): chest pain, trouble breathing, one-sided weakness, heavy bleeding, signs of a severe allergic reaction.">>)
                          ELSE JUndef,
        final_reminder |-> JStr(NEXT_STEP_DEFAULT)])

IntakeRepair002(p, c, question) ==
  IF Stage(p) = Intake
    THEN enforceOneQuestion002(p, IntakeStep002(c), question,
                               OrElse(Get(p, "mode"), JStr(<<c.modeHint>>)),
                               OrElse(Get(p, "topic_type"), JStr(<<c.topicHint>>)))
    ELSE p

\* advice: opener, brand notice, sanitized text and next step; the disclaimer is
\* not touched
AdviceRepair002(p, c) ==
  IF p = Thrown \/ Stage(p) # Advice THEN p
  ELSE LET productFlag == Truthy(Get(p, "product_specific")) \/ c.productSpecific
           fr == Get(p, "final_reminder")
           text == Get(p, "advice_text")
       IN IF Truthy(fr) /\ fr.t # "string" THEN Thrown
          ELSE IF Truthy(text) /\ text.t # "string" THEN Thrown
          ELSE LET nextStep == IF Truthy(fr) /\ Trim(fr.s) # <<>>
                                 THEN Trim(fr.s) ELSE NEXT_STEP_DEFAULT
                   txt == FRIENDLY_OPENER \o <<"\n", "\n">>
                            \o (IF productFlag THEN BRAND_NOTICE ELSE <<>>)
                            \o Trim(OrElse(text, JStr(<<>>)).s)
               IN Put(Put(p, "advice_text", JStr(sanitizeAdvice002(JStr(txt)))),
                      "final_reminder", JStr(nextStep))

Safeguard002(p, c, question) ==
  IF p = Thrown THEN Thrown
  ELSE LET reply == Get(p, "chat_reply")
       IN IF Truthy(reply) /\ reply.t # "string" THEN Thrown
          ELSE IF ~Truthy(reply) \/ Trim(reply.s) = <<>>
            THEN Put(Put(p, "stage", Intake), "chat_reply",
                     JStr(fallbackQuestion002(IntakeStep002(c), question,
                                              OrElse(Get(p, "mode"), JStr(<<c.modeHint>>)),
                                              OrElse(Get(p, "topic_type"), JStr(<<c.topicHint>>)))))
          ELSE p

Finish002(r, c, question) ==
  IF ~r.ok \/ ~Truthy(r.parsed)
    THEN Response(200, Emit(JObj([ok |-> JBool(TRUE),
                                  result |-> Emit(SafeResult002(c, question)),
                                  raw |-> r.raw])))
  ELSE LET p == Safeguard002(AdviceRepair002(IntakeRepair002(r.parsed, c, question), c),
                             c, question)
       IN IF p = Thrown THEN Threw
          ELSE Response(200, JObj([ok |-> JBool(TRUE), result |-> Emit(p)]))

-----------------------------------------------------------------------------
(* One invocation of any of the handlers                                   *)
Handlers == {AskJs, MedQa, Part001, Part000, Part002}

\* the validation of part_000 and of part_002 has the text of that of ask.js
ValidateOf(h, ev, key) ==
  CASE h = MedQa -> ValidateMedQa(ev, key)
    [] h = Part001 -> ValidatePart001(ev, key)
    [] OTHER -> Validate(ev, key)

\* the moderation step of part_001, part_000 and part_002 has the text of that of ask.js
ModerateOf(h, m) ==
  CASE h = MedQa -> ModerateMedQa(m)
    [] OTHER -> Moderate(m)

\* the two Q&A handlers keep no conversation
ClassifyOf(h, ev) ==
  CASE h \in {MedQa, Part001} -> NoCtx
    [] h = Part000 -> Classify000(ev)
    [] h = Part002 -> Classify002(ev)
    [] OTHER -> Classify(ev)

\* whether the handler makes its second, forced call after the call that gave r:
\* the forced call follows the first attempt only
ForceOf(h, force, r, c) ==
  CASE h \in {MedQa, Part001} -> FALSE
    [] h = Part000 -> ~force /\ ShouldForce000(r, c)
    [] h = Part002 -> ~force /\ ShouldForce002(r, c)
    [] OTHER -> ForceNow(force, r, c)

\* a variant of the tail of ask.js that goes back to the first attempt when the
\* forced call came back unusable
FinishOfKeepingFirst(h, res, c, question) ==
  IF res.kind = "rejected" THEN Threw
  ELSE IF side.returned # <<>>
            /\ (~CallOnceResult(res).ok \/ ~Truthy(CallOnceResult(res).parsed))
    THEN Finish(CallOnceResult(side.returned[1]), c, question)
  ELSE Finish(CallOnceResult(res), c, question)

FinishOf(h, res, c, question) ==
  CASE h = MedQa -> FinishMedQa(res)
    [] h = Part001 -> FinishPart001(res)
    [] h = Part000 ->
         IF res.kind = "rejected" THEN Threw ELSE Finish000(CallOnceResult(res), c, question)
    [] h = Part002 ->
         IF res.kind = "rejected" THEN Threw ELSE Finish002(CallOnceResult(res), c, question)
    [] OTHER ->
         IF res.kind = "rejected" THEN Threw ELSE Finish(CallOnceResult(res), c, question)

LongQuestions ==
  {JStr(<<"headache", " ", "since this morning">>),
   JStr(<<"severe chest pain", " ", "since this morning">>)}

\* a conversation with three questions asked and answered
ThreeTurns ==
  JArr(<<Turn("assistant", <<"When did it start", "?">>), Turn("user", <<"walk">>),
         Turn("assistant", <<"Any fever", "?">>), Turn("user", <<"walk">>),
         Turn("assistant", <<"Where exactly is it", "?">>), Turn("user", <<"walk">>)>>)

SideEvents ==
  Events \cup {[httpMethod |-> "POST", body |-> RequestBody(q, JUndef)] : q \in LongQuestions}
         \cup {[httpMethod |-> "POST", body |-> RequestBody(JStr(<<"headache">>), ThreeTurns)]}

\* what the completion call hands back: a response, or the rejection of the fetch
CallOutcomes ==
  {[kind |-> "response", n |-> r.n, status |-> r.status, body |-> r.body] :
     r \in CompletionResponses(0)}
    \cup {[kind |-> "response", n |-> 0, status |-> 200,
           body |-> JObj([output_text |->
                      JText(JObj([stage |-> Intake,
                                  chat_reply |-> JStr(<<"When did it start", "?">>),
                                  need_another_intake |-> more]))])] :
            more \in {JBool(TRUE), JBool(FALSE)}}
    \cup {[kind |-> "rejected", n |-> 0, status |-> 0, body |-> JUndef]}

SideDone(result) == [side EXCEPT !.pc = "done", !.outcome = result]

\* the handler h is entered and runs up to the moderation request
SideInvoke(h, ev, key) ==
  /\ pc = "idle"
  /\ side.pc = "idle"
  /\ side' = [pc |-> IF ValidateOf(h, ev, key) # Pending THEN "done" ELSE "moderating",
              handler |-> h, event |-> ev, apiKey |-> key, ctx |-> NoCtx, force |-> FALSE,
              returned |-> <<>>,
              outcome |-> ValidateOf(h, ev, key),
              sent |-> IF ValidateOf(h, ev, key) # Pending THEN 0 ELSE 1]
  /\ UNCHANGED <<invocation, norm, probe>>

\* the moderation request settles; on a pass the completion call is made
SideModerated(m) ==
  /\ side.pc = "moderating"
  /\ side' = IF ModerateOf(side.handler, m) # Pending
               THEN SideDone(ModerateOf(side.handler, m))
               ELSE [side EXCEPT !.pc = "calling",
                                 !.ctx = ClassifyOf(side.handler, side.event),
                                 !.sent = @ + 1]
  /\ UNCHANGED <<invocation, norm, probe>>

\* the completion call returns: a forced second call, or the handler's tail
SideCallReturns(res) ==
  /\ side.pc = "calling"
  /\ side' = IF res.kind = "response"
                  /\ ForceOf(side.handler, side.force, CallOnceResult(res), side.ctx)
               THEN [side EXCEPT !.force = TRUE, !.sent = @ + 1,
                                 !.returned = Append(@, res)]
               ELSE [side EXCEPT !.pc = "done",
                                 !.outcome = FinishOf(side.handler, res, side.ctx,
                                                      QuestionOf(side.event)),
                                 !.returned = Append(@, res)]
  /\ UNCHANGED <<invocation, norm, probe>>

SideNext ==
  \/ \E h \in Handlers, ev \in SideEvents, key \in ApiKeys : SideInvoke(h, ev, key)
  \/ \E m \in ModerationOutcomes : SideModerated(m)
  \/ \E res \in CallOutcomes : SideCallReturns(res)

SideSpec == Init /\ [][SideNext]_vars

-----------------------------------------------------------------------------
(* The classifiers on their own: one question classified together with two *)
(* histories, as the handlers of ask.js and of part_002 classify it         *)
TopicWords ==
  {"gout", "vitamin", "rash", "headache", "tummy", "growth", "chest pain", "pregnant",
   "hair loss", "tired", "walk"}

\* questions of one or two words, and questions with a red-flag pattern
ProbeQuestions ==
  {JStr(<<a, " ", b>>) : a \in TopicWords, b \in TopicWords}
    \cup {JStr(<<"Migraine">>), JStr(<<"crushing chest">>), JStr(<<"severe chest pain">>),
          JStr(<<"pregnant", " ", "bleeding">>), JStr(<<"bleeding", " ", "pregnant">>),
          JStr(<<"high fever", " ", "rash">>), JStr(<<"STROKE">>)}

ProbeHistories ==
  {JArr(<<>>),
   JArr(<<Turn("user", <<"rash">>)>>),
   JArr(<<Turn("user", <<"severe chest pain">>), Turn("assistant", <<"When did it start", "?">>)>>),
   JArr(<<Turn("user", <<"growth">>), Turn("assistant", <<"When did it start", "?">>),
          Turn("user", <<"walk">>), Turn("assistant", <<"Any fever", "?">>)>>)}

ProbeEvent(q, h) == [httpMethod |-> "POST", body |-> RequestBody(q, h)]

\* the classification step of the two handlers for the question q, once with the
\* history ha and once with the history hb
Classified(q, ha, hb) ==
  /\ probe = NoProbe
  /\ probe' = [of |-> "classify", question |-> q, historyA |-> ha, historyB |-> hb,
               a |-> Classify(ProbeEvent(q, ha)), b |-> Classify(ProbeEvent(q, hb)),
               a002 |-> Classify002(ProbeEvent(q, ha)),
               b002 |-> Classify002(ProbeEvent(q, hb))]
  /\ UNCHANGED <<invocation, norm, side>>

\* process.env.OPENAI_API_KEY: unset, empty, or a credential
EnvKeys == {JUndef, JStr(<<>>), JStr(<<"sk-test">>), JStr(<<"sk-live">>)}

\* a variant that puts the credential next to the flag
debugEnvEchoing(key) ==
  [kind |-> "response", statusCode |-> 200,
   headers |-> [ContentType |-> "application/json"],
   body |-> JText(Emit(JObj([hasKey |-> JBool(Truthy(key)), key |-> key])))]

\* exports.handler of debug-env.js
debugEnv(key) ==
  [kind |-> "response", statusCode |-> 200,
   headers |-> [ContentType |-> "application/json"],
   body |-> JText(JObj([hasKey |-> JBool(Truthy(key))]))]

\* the diagnostic endpoint is called in two environments
DebugEnvCalled(keyA, keyB) ==
  /\ probe = NoProbe
  /\ probe' = [of |-> "debug-env", keyA |-> keyA, keyB |-> keyB,
               a |-> debugEnv(keyA), b |-> debugEnv(keyB)]
  /\ UNCHANGED <<invocation, norm, side>>

ProbeNext ==
  \/ \E q \in ProbeQuestions, ha \in ProbeHistories, hb \in ProbeHistories :
       Classified(q, ha, hb)
  \/ \E keyA \in EnvKeys, keyB \in EnvKeys : DebugEnvCalled(keyA, keyB)

ProbeSpec == Init /\ [][ProbeNext]_vars

-----------------------------------------------------------------------------
(* Properties                                                              *)
Done == pc = "done"
Responded == outcome.kind = "response"
Responded200 == Responded /\ outcome.statusCode = 200

\* the result member of the response body
Result == IF Responded THEN Get(outcome.body, "result") ELSE JUndef

NonBlank(v) == v.t = "string" /\ Trim(v.s) # <<>>

\* the invocation got past the moderation gate: a generation call was started
Gated == calls # <<>>

\* the moderation request settled with a success response that carries no flag
ModerationPassed ==
  /\ modSeen.kind = "response"
  /\ IsOk(modSeen.status)
  /\ modSeen.body.t = "object"
  /\ ~Truthy(Flagged(modSeen.body))

\* the moderation request settled with a success response that reports flagged = true
ModerationFlagged ==
  /\ modSeen.kind = "response"
  /\ IsOk(modSeen.status)
  /\ modSeen.body.t = "object"
  /\ Flagged(modSeen.body) = JBool(TRUE)

\* the moderation collaborator failed: network error, unreadable body, error status
ModerationUnreachable == modSeen.kind = "rejected" \/ (modSeen.kind = "response" /\ modSeen.body = Garbage)
ModerationErrorStatus ==
  modSeen.kind = "response" /\ modSeen.body # Garbage /\ ~IsOk(modSeen.status)
ModerationFailed == ModerationUnreachable \/ ModerationErrorStatus

BlockedBody == ErrorBody("Question blocked by moderation.")

\* the last generation call made has returned to the handler
LastCallReturned == Gated /\ Running.returned # 0
\* the fetch of the last generation call rejected
LastCallRejected == Gated /\ Done /\ Running.returned = 0

\* the claim's "usable result": response ok and output parsed
Unusable(r) == ~r.ok \/ r.parsed = JNull
UsableAdvice(r) == r.ok /\ r.parsed # JNull /\ Stage(r.parsed) = Advice

ForcingContext == ctx.urgentFlag \/ ctx.assistantTurns >= MAX_INTAKE_TURNS

\* C1: every 200 response carries a result whose chat_reply is a non-blank string
C1_ChatReplyNeverBlank ==
  Responded200 => NonBlank(Get(Result, "chat_reply"))

\* C2: past the moderation gate, every generation-backend failure (error status,
\* 429 on all retries, unreadable or unparsable body, network error) ends in a
\* 200 response with ok:true
C2_BackendFailureAbsorbed ==
  (Done /\ Gated /\ (LastCallRejected \/ Unusable(callResult)))
    => (Responded200 /\ Get(outcome.body, "ok") = JBool(TRUE))

\* C3: the moderation service is called at most once, with the new question alone,
\* and no completion request is sent before it answered with an unflagged success
C3_ModerationFirstQuestionOnly ==
  /\ Len(modLog) <= 1
  /\ \A k \in 1..Len(modLog) : modLog[k] = QuestionOf(event)
  /\ sentTotal > 0 => (Len(modLog) = 1 /\ ModerationPassed)

C3_Witness ==
  sentTotal > 0 /\ Len(modLog) = 1 /\ Len(ctx.history) >= 2 /\ Done

\* C4: a flagged verdict ends the invocation with 400 "Question blocked by
\* moderation.", a message no validation error carries, and no completion request
C4_FlaggedIsBlocked ==
  /\ ModerationFlagged =>
       (Done /\ outcome = Response(400, BlockedBody) /\ sentTotal = 0 /\ calls = <<>>)
  /\ (Responded /\ modLog = <<>>) => outcome.body # BlockedBody
                                      /\ Get(outcome.body, "error") # Get(BlockedBody, "error")

C4_Witness == ModerationFlagged /\ Done

\* C5 as stated: every moderation failure (network error, unreadable body, error
\* status) ends in a 5xx response that differs from the flagged one, with no
\* completion request
C5_ModerationFailureIs5xx ==
  ModerationFailed =>
    /\ Responded
    /\ outcome.statusCode >= 500 /\ outcome.statusCode <= 599
    /\ outcome.body # BlockedBody
    /\ sentTotal = 0

\* C5 amended: a moderation failure never reaches generation; a network error or an
\* unreadable body ends in 500 "Moderation request failed"; an error status of the
\* moderation endpoint is passed through as the response status, with the upstream
\* error message or "Moderation failed"
C5_ModerationFailureStops ==
  /\ ModerationFailed => (Done /\ Responded /\ sentTotal = 0 /\ calls = <<>>)
  /\ ModerationUnreachable =>
       (outcome = Response(500, ErrorBody("Moderation request failed"))
          /\ outcome.body # BlockedBody)
  /\ ModerationErrorStatus =>
       /\ outcome.statusCode = modSeen.status
       /\ Get(outcome.body, "ok") = JBool(FALSE)
       /\ Get(outcome.body, "error") \in
            {UpstreamMessage(modSeen.body), JStr(<<"Moderation failed">>)}
       /\ Truthy(UpstreamMessage(modSeen.body))
            => Get(outcome.body, "error") = UpstreamMessage(modSeen.body)

C5_Witness ==
  /\ ModerationErrorStatus /\ modSeen.status = 429 /\ Done
  /\ outcome.statusCode = 429

\* C6: past moderation there are one or two generation calls, the first in plain
\* intake framing, the second with the forced-advice control message, never a third
C6_OneOrTwoGenerationCalls ==
  /\ Len(calls) <= 2
  /\ Len(calls) >= 1 => ~calls[1].force
  /\ Len(calls) >= 2 => calls[2].force
  /\ ModerationPassed => Len(calls) >= 1
  /\ sentTotal <= 2 * Tries

C6_Witness == Done /\ Len(calls) = 2 /\ calls[2].returned # 0 /\ Responded200

\* C7: the forced call is made exactly when the first attempt gave no usable advice
\* and (urgency or at least MAX_INTAKE_TURNS assistant turns)
FirstResultVisible ==
  /\ Len(calls) >= 1
  /\ calls[1].returned # 0
  /\ Len(calls) = 2 => calls[2].returned = 0 /\ calls[2].sent = 1 /\ pc = "fetching"

C7_ForcedCallIff ==
  /\ FirstResultVisible =>
       (Len(calls) = 2 <=> (~UsableAdvice(callResult) /\ ForcingContext))
  /\ (Gated /\ ~ForcingContext) => Len(calls) = 1

C7_Witness ==
  /\ FirstResultVisible /\ Len(calls) = 2
  /\ ~ctx.urgentFlag /\ ctx.assistantTurns >= MAX_INTAKE_TURNS
  /\ callResult.ok /\ Stage(callResult.parsed) = Intake

\* the handler takes the synthesized result: response not ok, or nothing parsed
FallbackTaken(r) == ~r.ok \/ ~Truthy(r.parsed)

\* C8 as stated: with urgency or MAX_INTAKE_TURNS assistant turns reached, every
\* response is a 200 whose result is stage advice with a non-empty disclaimer
C8_ForcingContextYieldsAdvice ==
  (Responded /\ Gated /\ ForcingContext) =>
    /\ outcome.statusCode = 200
    /\ Stage(Result) = Advice
    /\ NonBlank(Get(Result, "disclaimer"))

\* C8 amended: with urgency or MAX_INTAKE_TURNS assistant turns reached, every
\* response is a 200, and its result is stage advice (then with the fixed opener
\* as disclaimer) exactly when the last generation call gave a parsed result of
\* stage advice with a non-blank chat_reply, or when the last call was unusable and
\* urgency was detected
C8_AdviceWhenDelivered ==
  (Responded /\ Gated /\ ForcingContext) =>
    /\ outcome.statusCode = 200
    /\ Stage(Result) = Advice <=>
         \/ FallbackTaken(callResult) /\ ctx.urgentFlag
         \/ /\ ~FallbackTaken(callResult)
            /\ Stage(callResult.parsed) = Advice
            /\ NonBlank(Get(callResult.parsed, "chat_reply"))
    /\ Stage(Result) = Advice =>
         /\ Get(Result, "disclaimer") = JStr(FRIENDLY_OPENER)
         /\ NonBlank(Get(Result, "disclaimer"))

C8_Witness ==
  /\ Responded /\ Len(calls) = 2 /\ ~ctx.urgentFlag
  /\ ctx.assistantTurns >= MAX_INTAKE_TURNS
  /\ Stage(Result) = Advice

\* C9 as stated: without urgency and below MAX_INTAKE_TURNS assistant turns, every
\* response carries a result of stage intake whose chat_reply ends in "?"
C9_IntakeBelowThreshold ==
  (Responded /\ Gated /\ ~ForcingContext) =>
    /\ Stage(Result) = Intake
    /\ Get(Result, "chat_reply").t = "string"
    /\ EndsWith(Get(Result, "chat_reply").s, "?")

\* C9 amended: without urgency and below MAX_INTAKE_TURNS assistant turns there is
\* one generation call, never the forced one; the result is stage advice only if
\* the backend's own parsed answer was stage advice; and it is stage intake with a
\* chat_reply ending in "?" whenever that call was unusable or answered stage intake
C9_NoForcedAdviceBelowThreshold ==
  (Responded /\ Gated /\ ~ForcingContext) =>
    /\ outcome.statusCode = 200
    /\ Len(calls) = 1 /\ ~calls[1].force
    /\ Stage(Result) = Advice =>
         (~FallbackTaken(callResult) /\ Stage(callResult.parsed) = Advice)
    /\ (FallbackTaken(callResult) \/ Stage(callResult.parsed) = Intake) =>
         /\ Stage(Result) = Intake
         /\ Get(Result, "chat_reply").t = "string"
         /\ EndsWith(Get(Result, "chat_reply").s, "?")

C9_Witness ==
  /\ Responded /\ Gated /\ ~ForcingContext
  /\ ~FallbackTaken(callResult)
  /\ Stage(callResult.parsed) = Intake
  /\ Get(callResult.parsed, "chat_reply") = JStr(<<"Tell me more.">>)
  /\ EndsWith(Get(Result, "chat_reply").s, "?")

\* the number of the first response of call k, minus one
NumberBase(k) == IF k = 1 THEN 0 ELSE calls[1].sent

\* C10: callOpenAIWithBackoff sends at most Tries requests, the next one only
\* after a 429; the first response that is no 429 is returned at once; after Tries
\* 429 responses the last one is returned as it is
C10_BackoffProtocol ==
  /\ \A k \in 1..Len(calls) :
       LET c == calls[k] IN
         /\ c.sent >= 1 /\ c.sent <= Tries
         /\ Len(c.statuses) \in {c.sent - 1, c.sent}
         /\ \A j \in 1..(c.sent - 1) : c.statuses[j] = 429
         /\ (Len(c.statuses) = c.sent /\ c.statuses[c.sent] # 429)
              => c.returned = NumberBase(k) + c.sent
         /\ c.returned # 0 =>
              /\ Len(c.statuses) = c.sent
              /\ c.returned = NumberBase(k) + c.sent
              /\ c.statuses[c.sent] = 429 => c.sent = Tries
  /\ LastCallReturned =>
       /\ callResult.n = Running.returned
       /\ callResult.status = Running.statuses[Running.sent]

C10_Witness ==
  /\ LastCallReturned
  /\ Running.statuses = <<429, 429, 429>>
  /\ callResult.status = 429 /\ callResult.n = sentTotal
  /\ Len(slept) >= Tries

RECURSIVE Sum(_)
Sum(a) == IF a = <<>> THEN 0 ELSE Head(a) + Sum(Tail(a))

\* the 429 responses call k has received
RetriedOf(k) == Len(FilterSeq(calls[k].statuses, {429}))

\* the delays slept inside call k, out of the delays of the whole invocation
SleptIn(k) ==
  IF k = 1 THEN SliceFirst(slept, RetriedOf(1))
  ELSE SubSeq(slept, RetriedOf(1) + 1, Len(slept))

BackoffDelays == <<InitialWait, 2 * InitialWait, 4 * InitialWait>>

\* C11 as stated: the delays are 1, 2, 4 units of 1000 ms and the whole invocation
\* never sleeps more than 7 units
C11_InvocationSleepsAtMost7 ==
  /\ \A k \in 1..Len(calls) : SleptIn(k) = SliceFirst(BackoffDelays, Len(SleptIn(k)))
  /\ Sum(slept) <= 7 * InitialWait

\* C11 amended: inside one callOpenAIWithBackoff the delays are 1000, 2000, 4000 ms,
\* one after each 429 (the third 429 included), at most 7000 ms together; the
\* invocation makes up to two such calls and never sleeps more than 14000 ms
C11_CallSleepsAtMost7 ==
  /\ \A k \in 1..Len(calls) :
       /\ SleptIn(k) = SliceFirst(BackoffDelays, Len(SleptIn(k)))
       /\ Len(SleptIn(k)) \in {RetriedOf(k), RetriedOf(k) - 1}
       /\ (k < Len(calls) \/ pc = "done") => Len(SleptIn(k)) = RetriedOf(k)
       /\ Sum(SleptIn(k)) <= 7 * InitialWait
  /\ slept = (IF calls = <<>> THEN <<>> ELSE SleptIn(1))
               \o (IF Len(calls) = 2 THEN SleptIn(2) ELSE <<>>)
  /\ Sum(slept) <= 2 * 7 * InitialWait

C11_Witness ==
  /\ Responded /\ Len(calls) = 2
  /\ SleptIn(1) = BackoffDelays /\ SleptIn(2) = BackoffDelays
  /\ Sum(slept) = 14 * InitialWait

\* no outbound request was sent, to moderation or to the completion endpoint
NoOutboundCall == modLog = <<>> /\ sentTotal = 0 /\ calls = <<>> /\ inflight = 0

\* the event is a POST whose body is valid JSON
ValidJsonPost == event.httpMethod = "POST" /\ ParsedBody(event) # Thrown

\* the question the body carries, if it carries one
BodyQuestion ==
  IF ParsedBody(event).t = "object" THEN Get(ParsedBody(event), "question") ELSE JUndef

\* the question is missing, empty, or shorter than MinQuestionLen once trimmed
QuestionLacking ==
  \/ BodyQuestion \in {JUndef, JNull}
  \/ BodyQuestion.t = "string" /\ StrLen(Trim(BodyQuestion.s)) < MinQuestionLen

DetailError == JObj([error |-> JStr(<<"Please add a bit more detail.">>)])

\* C13: a POST with a valid JSON body whose question is missing, empty or shorter
\* than 2 characters after trimming gets 400 "Please add a bit more detail." and
\* no outbound call, with or without the credential
C13_ShortQuestionRejected ==
  (Done /\ ValidJsonPost /\ QuestionLacking) =>
    /\ outcome = Response(400, DetailError)
    /\ NoOutboundCall

\* the request passed the method, JSON and question checks
PassedValidation ==
  /\ ValidJsonPost
  /\ BodyQuestion.t = "string"
  /\ StrLen(Trim(BodyQuestion.s)) >= MinQuestionLen

\* C14: a request that passed validation while OPENAI_API_KEY is unset or empty
\* gets status 500 and no outbound call, to moderation or to the completion endpoint
C14_MissingKeyFailsFast ==
  (pc # "idle" /\ PassedValidation /\ apiKey = "") =>
    /\ Done
    /\ outcome = Response(500, JObj([error |-> JStr(<<"Missing OPENAI_API_KEY">>)]))
    /\ NoOutboundCall

C14_Witness ==
  /\ Done /\ PassedValidation /\ apiKey = ""
  /\ Get(ParsedBody(event), "history") # JUndef
  /\ outcome.statusCode = 500

\* the number of "?" characters in a string
QuestionMarks(s) == Len(FilterSeq(s, {"?"}))

\* C15: in every 200 response whose result is stage intake, chat_reply holds at
\* most one "?" and ends with "?"
C15_IntakeAsksOneQuestion ==
  (Responded200 /\ Stage(Result) = Intake) =>
    /\ Get(Result, "chat_reply").t = "string"
    /\ EndsWith(Get(Result, "chat_reply").s, "?")
    /\ QuestionMarks(Get(Result, "chat_reply").s) <= 1

\* C17: when the last generation call made is unusable (not ok, or nothing parsed),
\* the response is 200 ok:true with that call's raw payload and a synthesized
\* result: with urgency, stage advice and the fixed urgent-care warning; otherwise
\* stage intake and the bank question of step min(assistantTurns, 1) and topicHint,
\* whatever the question text is
C17_SynthesizedFallback ==
  (Done /\ LastCallReturned /\ FallbackTaken(callResult)) =>
    /\ Responded200
    /\ Get(outcome.body, "ok") = JBool(TRUE)
    /\ Get(outcome.body, "raw") = callResult.raw
    /\ IF ctx.urgentFlag
         THEN /\ Stage(Result) = Advice
              /\ Get(Result, "chat_reply") = JStr(URGENT_REPLY)
         ELSE /\ Stage(Result) = Intake
              /\ \A q \in ValidQuestions \cup {JStr(<<>>)} :
                   Get(Result, "chat_reply") =
                     JStr(fallbackQuestion(Min(ctx.assistantTurns, MAX_INTAKE_TURNS - 1),
                                           q, JStr(<<ctx.topicHint>>)))

C17_Witness ==
  /\ Done /\ LastCallReturned /\ FallbackTaken(callResult)
  /\ Len(calls) = 2 /\ ~ctx.urgentFlag /\ ctx.assistantTurns >= MAX_INTAKE_TURNS
  /\ callResult.status = 500
  /\ callResult.parsed # JNull
  /\ Get(outcome.body, "raw") = callResult.raw
  /\ Stage(Result) = Intake

\* the positions of the input array that hold a turn: an object with role user or
\* assistant and a string content
TurnPositions ==
  {k \in 1..RawLen :
     LET t == norm.raw.a[k]
     IN /\ t.t = "object"
        /\ {"role", "content"} \subseteq DOMAIN t.f
        /\ t.f.role \in {JStr(<<"user">>), JStr(<<"assistant">>)}
        /\ t.f.content.t = "string"}

\* the j-th smallest member of a set of positions
Nth(S, j) == CHOOSE k \in S : Cardinality({x \in S : x <= k}) = j

\* cut is the first ContentCap characters of whole
FirstChars(cut, whole) ==
  /\ Len(cut) <= Len(whole)
  /\ cut = SubSeq(whole, 1, Len(cut))
  /\ StrLen(cut) <= ContentCap
  /\ cut = whole \/ StrLen(cut) = ContentCap

\* the output is the last n turns of the input, in order, contents cut
LastTurnsOf(n) ==
  /\ norm.out # Raised
  /\ Len(norm.out) = n
  /\ \A j \in 1..n :
       LET t == norm.raw.a[Nth(TurnPositions, Cardinality(TurnPositions) - n + j)]
       IN /\ <<norm.out[j].role>> = t.f.role.s
          /\ FirstChars(norm.out[j].content, t.f.content.s)

\* C18 as stated: of an array of more than 12 entries, normalizeHistory returns
\* exactly the last 12 entries, in order
C18_LastTwelveEntries ==
  (norm.raw.t = "array" /\ RawLen > HistoryCap) =>
    /\ norm.out # Raised
    /\ AsArray(norm.out).a = SubSeq(norm.raw.a, RawLen - HistoryCap + 1, RawLen)

\* C18 amended: of an array with more than 12 well-formed turns, normalizeHistory
\* returns 12 turns: the last 12 well-formed ones in their order, each with its
\* role and the first 800 characters of its content; the other entries are dropped
\* before the last 12 are taken
C18_LastTwelveTurns ==
  (norm.raw.t = "array" /\ Cardinality(TurnPositions) > HistoryCap) =>
    LastTurnsOf(HistoryCap)

C18_Witness ==
  /\ norm.raw.t = "array" /\ RawLen = MaxRaw
  /\ Cardinality(TurnPositions) = HistoryCap + 1
  /\ Len(norm.out) = HistoryCap
  /\ norm.out[HistoryCap].content = <<PositionToks[MaxRaw - 1]>>

\* C19: normalizeHistory never throws; a non-array gives the empty sequence; the
\* output holds at most 12 turns, each with role user or assistant and a content
\* that is the first 800 characters of the input's, in the order of the input
C19_NormalizedShape ==
  /\ norm.out # Raised
  /\ norm.raw.t # "array" => norm.out = <<>>
  /\ Len(norm.out) <= HistoryCap
  /\ \A j \in 1..Len(norm.out) :
       /\ norm.out[j].role \in {"user", "assistant"}
       /\ StrLen(norm.out[j].content) <= ContentCap
  /\ LastTurnsOf(Min(Cardinality(TurnPositions), HistoryCap))

C19_Witness ==
  /\ norm.raw.t = "array" /\ RawLen >= 10
  /\ {JNull, JStr(<<"m4">>), JObj([role |-> JStr(<<"user">>), content |-> JNum(5)]),
      Turn("system", <<"m7">>), Turn("assistant", <<LongTok, "m10">>)}
       \subseteq Range(norm.raw.a)
  /\ norm.out # <<>> /\ norm.out # Raised
  /\ norm.out[Len(norm.out)].content = <<LongTok>>

\* C20: normalizeHistory applied to its own output returns that output
C20_Idempotent == norm.again = norm.out

C20_Witness ==
  /\ norm.raw.t = "array" /\ RawLen > HistoryCap
  /\ Cardinality(TurnPositions) \in 1..(RawLen - 1)
  /\ \E j \in 1..Len(norm.out) : StrLen(norm.out[j].content) = ContentCap
  /\ norm.again = norm.out /\ norm.out # <<>>

-----------------------------------------------------------------------------
(* C12 *)
MalformedPost(ev) == ev.httpMethod = "POST" /\ ParsedBody(ev) = Thrown

Rejected400(o) == o.kind = "response" /\ o.statusCode = 400

\* C12: in ask.js, in med-qa's ask.js and in part_001, every POST whose body is not
\* valid JSON is answered with status 400 and no outbound request is made
C12_MalformedJsonIs400 ==
  side.pc = "done" /\ side.handler \in {AskJs, MedQa, Part001} /\ MalformedPost(side.event)
    => Rejected400(side.outcome) /\ side.sent = 0

\* the part of C12 about ask.js alone: the parse is guarded there
C12_AskJsMalformedIs400 ==
  side.pc = "done" /\ side.handler = AskJs /\ MalformedPost(side.event)
    => Rejected400(side.outcome) /\ side.outcome.body = ErrorBody("Invalid JSON")
         /\ side.sent = 0

\* in the two variants the parse is not guarded: the handler throws, no request made
C12_VariantsThrow ==
  side.pc = "done" /\ side.handler \in {MedQa, Part001} /\ MalformedPost(side.event)
    => side.outcome = Threw /\ side.sent = 0

C12_Witness ==
  side.pc = "done" /\ side.handler = MedQa /\ MalformedPost(side.event)

-----------------------------------------------------------------------------
(* C16 *)
SideResult == Get(side.outcome.body, "result")

\* the handler answered 200 with a result in the advice stage
AdviceAnswered ==
  /\ side.pc = "done"
  /\ side.outcome.kind = "response"
  /\ side.outcome.statusCode = 200
  /\ Stage(SideResult) = Advice

FilledIn(v) == v.t = "string" /\ Trim(v.s) # <<>>

\* C16: in ask.js, in part_002 and in the first handler of part_000, every 200
\* response whose result.stage is advice has a non-empty result.disclaimer and a
\* non-empty result.final_reminder
C16_AdviceHasDisclaimerAndReminder ==
  AdviceAnswered /\ side.handler \in {AskJs, Part002, Part000}
    => FilledIn(Get(SideResult, "disclaimer")) /\ FilledIn(Get(SideResult, "final_reminder"))

\* the part of C16 about ask.js alone
C16_AskJsAdviceHasBoth ==
  AdviceAnswered /\ side.handler = AskJs
    => /\ Get(SideResult, "disclaimer") = JStr(FRIENDLY_OPENER)
       /\ FilledIn(Get(SideResult, "final_reminder"))

\* part_000 returns the model's final_reminder as it came, and always a disclaimer
C16_Part000KeepsReminder ==
  AdviceAnswered /\ side.handler = Part000
    => /\ Truthy(Get(SideResult, "disclaimer"))
       /\ \E r \in CallOutcomes :
            /\ Truthy(parseOut(r.body))
            /\ Get(SideResult, "final_reminder") = Get(parseOut(r.body), "final_reminder")

C16_Witness ==
  AdviceAnswered /\ side.handler = Part000 /\ Get(SideResult, "final_reminder") = JUndef

\* part_002 always returns a final_reminder with advice, and the disclaimer as the
\* model gave it (none at all in the synthesized urgent result)
C16_Part002KeepsDisclaimer ==
  AdviceAnswered /\ side.handler = Part002
    => /\ FilledIn(Get(SideResult, "final_reminder"))
       /\ \/ Get(SideResult, "disclaimer") = JUndef
          \/ \E r \in CallOutcomes :
               /\ Truthy(parseOut(r.body))
               /\ Get(SideResult, "disclaimer") = Get(parseOut(r.body), "disclaimer")

C16_WitnessPart002 ==
  AdviceAnswered /\ side.handler = Part002 /\ Get(SideResult, "disclaimer") = JUndef

-----------------------------------------------------------------------------
(* C21 *)
RuleOrder ==
  <<"lab_test", "vitamin_or_med", "symptom_rash", "symptom_headache", "symptom_abdominal",
    "growth_development", "symptom_cardioresp", "pregnancy_related", "fatigue_hair">>

RuleMatches(label, txt) ==
  CASE label = "lab_test" -> Has(txt, LabTestToks)
    [] label = "vitamin_or_med" -> Has(txt, MedToks)
    [] label = "symptom_rash" -> Has(txt, RashToks)
    [] label = "symptom_headache" -> Has(txt, HeadacheToks)
    [] label = "symptom_abdominal" -> Has(txt, AbdominalToks)
    [] label = "growth_development" -> Has(txt, GrowthToks)
    [] label = "symptom_cardioresp" -> Has(txt, CardiorespToks)
    [] label = "pregnancy_related" -> Has(txt, PregnancyToks)
    [] label = "fatigue_hair" -> Has(txt, HairLossToks) /\ Has(txt, FatigueToks)

\* the label of the first rule of RuleOrder that matches, other when none does
FirstRule(txt) ==
  IF \E k \in 1..Len(RuleOrder) : RuleMatches(RuleOrder[k], txt)
    THEN RuleOrder[CHOOSE k \in 1..Len(RuleOrder) :
                     /\ RuleMatches(RuleOrder[k], txt)
                     /\ \A j \in 1..(k - 1) : ~RuleMatches(RuleOrder[j], txt)]
    ELSE "other"

\* the lower-cased concatenation of the history contents and the new message
ProbeText(history) ==
  ToLower(Join([k \in 1..Len(history) |-> history[k].content], <<" ">>)
            \o <<" ">> \o probe.question.s)

\* C21: the topic is the label of the first rule that matches the lower-cased
\* concatenation of the history contents and the new message, in the order lab_test,
\* vitamin_or_med, symptom_rash, symptom_headache, symptom_abdominal,
\* growth_development, symptom_cardioresp, pregnancy_related, fatigue_hair, and
\* other when no rule matches; checked for ask.js and for part_002
C21_FirstRuleWins ==
  probe.of = "classify"
    => /\ probe.a.topicHint = FirstRule(ProbeText(probe.a.history))
       /\ probe.b.topicHint = FirstRule(ProbeText(probe.b.history))
       /\ probe.a002.topicHint = FirstRule(ProbeText(probe.a002.history))
       /\ probe.b002.topicHint = FirstRule(ProbeText(probe.b002.history))

\* the part of C21 about inferTopic of ask.js alone
C21_AskJsFirstRuleWins ==
  probe.of = "classify"
    => /\ probe.a.topicHint = FirstRule(ProbeText(probe.a.history))
       /\ probe.b.topicHint = FirstRule(ProbeText(probe.b.history))
       /\ (RuleMatches("symptom_rash", ProbeText(probe.a.history))
             /\ RuleMatches("symptom_headache", ProbeText(probe.a.history))
             /\ probe.a.topicHint \notin {"lab_test", "vitamin_or_med"}
           => probe.a.topicHint = "symptom_rash")
       /\ (RuleMatches("growth_development", ProbeText(probe.a.history))
             /\ RuleMatches("symptom_cardioresp", ProbeText(probe.a.history))
             /\ probe.a.topicHint \notin {"lab_test", "vitamin_or_med", "symptom_rash",
                                          "symptom_headache", "symptom_abdominal"}
           => probe.a.topicHint = "growth_development")

\* part_002 tests the cardiorespiratory rule before the growth rule
C21_Part002CardiorespFirst ==
  probe.of = "classify"
    /\ RuleMatches("growth_development", ProbeText(probe.a002.history))
    /\ RuleMatches("symptom_cardioresp", ProbeText(probe.a002.history))
    => probe.a002.topicHint # "growth_development"

C21_Witness ==
  /\ probe.of = "classify"
  /\ RuleMatches("growth_development", ProbeText(probe.a002.history))
  /\ RuleMatches("symptom_cardioresp", ProbeText(probe.a002.history))
  /\ probe.a.topicHint = "growth_development"
  /\ probe.a002.topicHint = "symptom_cardioresp"

-----------------------------------------------------------------------------
(* C22 *)
\* C22: two requests with the same question and different histories get the same
\* urgency flag, in ask.js and in part_002
C22_UrgencyFromQuestionAlone ==
  probe.of = "classify"
    => /\ probe.a.urgentFlag = probe.b.urgentFlag
       /\ probe.a002.urgentFlag = probe.b002.urgentFlag

\* the part of C22 about ask.js alone: the flag is detectUrgency of the question
C22_AskJsUrgencyFromQuestionAlone ==
  probe.of = "classify"
    => /\ probe.a.urgentFlag = probe.b.urgentFlag
       /\ probe.a.urgentFlag = detectUrgency(probe.question)

\* in part_002 the flag also needs the clinical mode, which the history can supply
C22_Part002UrgencyNeedsClinicalMode ==
  probe.of = "classify"
    => /\ probe.a002.urgentFlag
            = (probe.a002.modeHint = "clinical" /\ detectUrgency002(probe.question))
       /\ (probe.a002.urgentFlag # probe.b002.urgentFlag
             => probe.a002.modeHint # probe.b002.modeHint)

C22_Witness ==
  /\ probe.of = "classify"
  /\ probe.historyA # probe.historyB
  /\ probe.a.urgentFlag /\ probe.b.urgentFlag
  /\ probe.a002.urgentFlag /\ ~probe.b002.urgentFlag

-----------------------------------------------------------------------------
(* C23 *)
Credential(key) == key.t = "string" /\ key.s # <<>>

\* C23: the body of the diagnostic endpoint holds the boolean hasKey and nothing
\* else, hasKey is true exactly when OPENAI_API_KEY is non-empty, and two different
\* non-empty credentials get identical responses
C23_OnlyPresenceFlag ==
  probe.of = "debug-env"
    => /\ probe.a.statusCode = 200
       /\ JSONparse(probe.a.body).t = "object"
       /\ DOMAIN JSONparse(probe.a.body).f = {"hasKey"}
       /\ Get(JSONparse(probe.a.body), "hasKey") = JBool(Credential(probe.keyA))
       /\ (Credential(probe.keyA) /\ Credential(probe.keyB) => probe.a = probe.b)

C23_Witness ==
  /\ probe.of = "debug-env"
  /\ Credential(probe.keyA) /\ Credential(probe.keyB)
  /\ probe.keyA # probe.keyB
  /\ Get(JSONparse(probe.a.body), "hasKey") = JBool(TRUE)

-----------------------------------------------------------------------------
(* C24 *)
\* at most one request in flight, one moderation request, six completion requests
SequentialWithinBudget ==
  /\ inflight \in {0, 1}
  /\ pc \in {"moderating", "fetching"} <=> inflight = 1
  /\ Len(modLog) <= 1
  /\ Len(calls) <= 2
  /\ sentTotal <= 6
  /\ \A k \in 1..Len(calls) : calls[k].sent <= 3

\* C24: when every outbound call settles, every invocation of the handler of ask.js
\* comes to its end; its outbound calls are never two in flight at once, and it sends
\* at most 1 moderation request and at most 6 completion requests
C24_EndsSequentiallyWithinBudget ==
  /\ []SequentialWithinBudget
  /\ (pc \in {"moderating", "fetching", "sleeping"}) ~> (pc = "done")

C24_Witness ==
  /\ pc = "done" /\ inflight = 0
  /\ Len(modLog) = 1 /\ sentTotal = 6
  /\ outcome.kind = "response"

-----------------------------------------------------------------------------
(* C25 *)
\* part_002 has the result of its first attempt, which was a response
FirstAttemptBack002 ==
  /\ side.pc \in {"calling", "done"}
  /\ side.handler = Part002
  /\ Len(side.returned) >= 1
  /\ side.returned[1].kind = "response"

FirstAttempt == CallOnceResult(side.returned[1])

YieldedAdvice(r) == r.ok /\ Truthy(r.parsed) /\ Stage(r.parsed) = Advice

\* C25: in part_002, for a request that is not urgent, the second call is made if and
\* only if the first attempt did not yield advice and assistantTurns >= 2 and (the
\* first result did not set need_another_intake to true, or assistantTurns >= 3);
\* with fewer than 2 assistant turns and no urgency no second call is made
C25_SecondCallOnlyToForceAdvice ==
  FirstAttemptBack002 /\ ~side.ctx.urgentFlag
    => /\ side.force <=>
            /\ ~YieldedAdvice(FirstAttempt)
            /\ side.ctx.assistantTurns >= MIN_INTAKE_TURNS
            /\ \/ ~NeedMoreIntake(FirstAttempt.parsed)
               \/ side.ctx.assistantTurns >= MAX_INTAKE_TURNS_002
       /\ side.ctx.assistantTurns < MIN_INTAKE_TURNS => ~side.force

\* what part_002 does: C25 holds of the first attempts that are usable, and an
\* unusable first attempt is always followed by the second call
C25_UsableFirstAttempt ==
  FirstAttemptBack002 /\ ~side.ctx.urgentFlag
    => IF FirstAttempt.ok /\ Truthy(FirstAttempt.parsed)
         THEN /\ side.force <=>
                   /\ Stage(FirstAttempt.parsed) # Advice
                   /\ side.ctx.assistantTurns >= MIN_INTAKE_TURNS
                   /\ \/ ~NeedMoreIntake(FirstAttempt.parsed)
                      \/ side.ctx.assistantTurns >= MAX_INTAKE_TURNS_002
              /\ side.ctx.assistantTurns < MIN_INTAKE_TURNS => ~side.force
         ELSE side.force

\* a third intake question comes from the model only with need_another_intake true
C25_ThirdQuestionOnlyWhenSignalled ==
  (/\ FirstAttemptBack002 /\ ~side.ctx.urgentFlag
   /\ side.ctx.assistantTurns = MIN_INTAKE_TURNS
   /\ side.pc = "done" /\ ~side.force
   /\ FirstAttempt.ok /\ Stage(FirstAttempt.parsed) = Intake)
    => NeedMoreIntake(FirstAttempt.parsed)

C25_Witness ==
  /\ FirstAttemptBack002 /\ ~side.ctx.urgentFlag
  /\ side.ctx.assistantTurns < MIN_INTAKE_TURNS
  /\ ~FirstAttempt.ok
  /\ side.force

C25_WitnessThirdQuestion ==
  /\ FirstAttemptBack002 /\ ~side.ctx.urgentFlag
  /\ side.ctx.assistantTurns = MIN_INTAKE_TURNS
  /\ side.pc = "done" /\ ~side.force
  /\ NeedMoreIntake(FirstAttempt.parsed)
  /\ Stage(SideResult) = Intake

-----------------------------------------------------------------------------
(* C26 *)
\* C26: in every 200 response of ask.js, result.stage is intake or advice, whatever
\* stage the backend returned
C26_StageIsIntakeOrAdvice ==
  Responded200 => Stage(Result) \in {Intake, Advice}

\* what ask.js does: the stage is rewritten only together with a blank chat_reply;
\* any other stage of the backend, or none, goes out as it came
C26_StagePassedThrough ==
  Responded200 /\ Stage(Result) \notin {Intake, Advice}
    => /\ callResult.ok /\ Truthy(callResult.parsed)
       /\ Stage(Result) = Stage(callResult.parsed)
       /\ (callResult.parsed.t = "object" => NonBlank(Get(callResult.parsed, "chat_reply")))

C26_Witness ==
  Responded200 /\ Stage(Result) = JStr(<<"triage">>)

C26_WitnessNoStage ==
  Responded200 /\ Result.t = "object" /\ Stage(Result) = JUndef

-----------------------------------------------------------------------------
(* C27 *)
\* the backend's topic_type, else the inferred hint
EffectiveTopic == OrElse(Get(Result, "topic_type"), JStr(<<ctx.topicHint>>))

\* the response is a 200 with an intake result whose chat_reply mentions the scale
ScaleAsked ==
  /\ Responded200
  /\ Stage(Result) = Intake
  /\ Get(Result, "chat_reply").t = "string"
  /\ MentionsScale(Get(Result, "chat_reply").s)

\* C27: an intake result of ask.js mentions the 0-10 scale only if the effective
\* topic is one of symptom_headache, symptom_abdominal, symptom_cardioresp,
\* symptom_rash, other, also when topic_type has no entry in the question bank
C27_ScaleOnlyForPermittingTopics ==
  ScaleAsked => topicAllowsPainScale(EffectiveTopic)

InBank(topic) == topic.t = "string" /\ Len(topic.s) = 1 /\ topic.s[1] \in DOMAIN QuestionBank

\* the claim holds of the topics that have an entry in the question bank
C27_ScaleOnlyForPermittingBankTopics ==
  ScaleAsked /\ InBank(EffectiveTopic) => topicAllowsPainScale(EffectiveTopic)

C27_Witness ==
  /\ ScaleAsked
  /\ EffectiveTopic = JStr(<<"dental">>)
  /\ Get(Result, "chat_reply").s = QuestionBank.other[2]

C27_WitnessPermitted ==
  /\ ScaleAsked
  /\ EffectiveTopic = JStr(<<"symptom_headache">>)
  /\ callResult.ok /\ Get(callResult.parsed, "chat_reply") = Get(Result, "chat_reply")

-----------------------------------------------------------------------------
(* C28 *)
\* ask.js made its forced call and both calls came back with a response
BothCallsBack ==
  /\ side.pc = "done"
  /\ side.handler = AskJs
  /\ Len(side.returned) = 2
  /\ side.returned[2].kind = "response"

SecondAttempt == CallOnceResult(side.returned[2])

UsableIntake(r) == r.ok /\ Truthy(r.parsed) /\ Stage(r.parsed) = Intake

\* C28: in ask.js, when the first call returned a usable intake result and the forced
\* call then failed (not ok or unparsable), the response is the synthesized fallback
\* with the raw payload of the second call; the first call's result is not used
C28_FirstResultDiscarded ==
  BothCallsBack /\ UsableIntake(FirstAttempt)
                /\ (~SecondAttempt.ok \/ ~Truthy(SecondAttempt.parsed))
    => /\ side.outcome.kind = "response"
       /\ side.outcome.statusCode = 200
       /\ Get(side.outcome.body, "ok") = JBool(TRUE)
       /\ Get(side.outcome.body, "raw") = SecondAttempt.raw
       /\ SideResult = Emit(SafeResult(side.ctx, QuestionOf(side.event)))

C28_Witness ==
  /\ BothCallsBack /\ UsableIntake(FirstAttempt)
  /\ ~SecondAttempt.ok
  /\ FirstAttempt.raw # SecondAttempt.raw
  /\ Get(FirstAttempt.parsed, "chat_reply") = JStr(<<"When did it start", "?">>)
  /\ Stage(SideResult) = Intake
  /\ Get(SideResult, "chat_reply") # Get(FirstAttempt.parsed, "chat_reply")

-----------------------------------------------------------------------------
(* C29 *)
\* the moderation response carried the verdict flagged = false
ExplicitlyClear ==
  /\ modSeen.kind = "response"
  /\ IsOk(modSeen.status)
  /\ modSeen.body.t = "object"
  /\ Flagged(modSeen.body) = JBool(FALSE)

\* C29: in ask.js a completion request is sent only if the moderation response
\* explicitly contained a verdict with flagged = false; a successful response with
\* no results entry, or no flagged field, does not let the request through
C29_ThroughOnlyWhenExplicitlyClear == Gated => ExplicitlyClear

\* what the gate does ensure: a success response whose flag is false or absent
C29_ThroughWhenClearOrNoVerdict ==
  Gated => ModerationPassed /\ Flagged(modSeen.body) \in {JBool(FALSE), JUndef}

C29_Witness == Gated /\ ExplicitlyClear /\ sentTotal >= 1

C29_WitnessNoVerdict ==
  Gated /\ modSeen.body = JObj([results |-> JArr(<<>>)]) /\ sentTotal >= 1

-----------------------------------------------------------------------------
(* C30 *)
\* the handler finished before any outbound request, on a POST with a valid JSON body
EndedInValidation(h) ==
  /\ side.pc = "done"
  /\ side.handler = h
  /\ side.event.httpMethod = "POST"
  /\ ParsedBody(side.event) # Thrown
  /\ side.sent = 0

\* the body carries a truthy question that is not a string
TruthyNonString(ev) ==
  /\ ParsedBody(ev).t = "object"
  /\ Truthy(QuestionOf(ev))
  /\ QuestionOf(ev).t # "string"

\* C30: for every POST with a valid JSON body, the handler of ask.js returns an HTTP
\* response instead of throwing during validation; a truthy non-string question is
\* rejected with status 400 and no outbound call, as in part_001
C30_ValidationNeverThrows ==
  /\ EndedInValidation(AskJs) => side.outcome.kind = "response"
  /\ side.pc = "done" /\ side.handler \in {AskJs, Part001} /\ TruthyNonString(side.event)
       => Rejected400(side.outcome) /\ side.sent = 0

\* part_001 tests the type of the question: 400 and no outbound call
C30_Part001RejectsNonString ==
  side.pc = "done" /\ side.handler = Part001 /\ TruthyNonString(side.event)
    => side.outcome = Response(400, LongerError) /\ side.sent = 0

\* ask.js answers when the body is an object whose question is a string or is falsy
C30_AskJsAnswersStringOrFalsy ==
  EndedInValidation(AskJs) /\ ParsedBody(side.event).t = "object"
                           /\ ~TruthyNonString(side.event)
    => side.outcome.kind = "response"

\* ask.js throws on a truthy non-string question and on the body null; no request made
C30_AskJsThrowsInValidation ==
  side.pc = "done" /\ side.handler = AskJs
    /\ (TruthyNonString(side.event) \/ ParsedBody(side.event).t = "null")
    => side.outcome = Threw /\ side.sent = 0

C30_Witness ==
  /\ EndedInValidation(AskJs)
  /\ QuestionOf(side.event) = JBool(TRUE)
  /\ side.outcome = Threw

C30_WitnessPart001 ==
  /\ side.pc = "done" /\ side.handler = Part001
  /\ QuestionOf(side.event) = JArr(<<>>)
  /\ Rejected400(side.outcome)

C30_WitnessAnswered ==
  /\ EndedInValidation(AskJs)
  /\ QuestionOf(side.event) = JStr(<<" ", "a", " ">>)
  /\ side.outcome = Response(400, DetailError)

====
